---- MODULE Spec2Model ----
(***************************************************************************)
(* A model of the RAG front end: the API client (ApiService), the          *)
(* real-time Tally page (TallyDataFetcher), the Tally analytics page       *)
(* (TallyAnalytics) and the Chat page.                                     *)
(*                                                                         *)
(* JavaScript values: an object is a record, an array a sequence, and      *)
(* null/undefined in an object-typed place is the record Null.  A promise  *)
(* is its settlement, [kind |-> "fulfilled" | "rejected", value |-> v].    *)
(* One action is one macrotask of the event loop: an event handler up to   *)
(* its first await that really suspends, or the continuation that runs     *)
(* when an awaited HTTP request settles.                                   *)
(***************************************************************************)
EXTENDS Integers, Sequences, FiniteSets, TLC

\* ------------------------------------------------------------- bounds ---
\* startDataFetching invocations per run (each may create one timer)
MaxStarts == 1
\* requests of one kind that may be in flight together
MaxInFlight == 1
\* sendMessage invocations per run of the Chat page
MaxSends == 2
\* loadTallyData invocations per run of the analytics page
MaxLoads == 3
\* how long a pending request is followed, in ticks
MaxWait == 2

VARIABLES
    \* the API client and its environment
    clientMethods,      \* the methods the apiService object has
    tallyUp,            \* the backend's accounting connection is connected
    apiResult,          \* settlement of the last accounting read made directly
    \* TallyDataFetcher
    mounted, isConnected, isDataFetching, connectionDetails, realTimeData,
    lastUpdated, tdfMessage, refreshInterval, tdfLoading, intervalRef,
    timers,             \* the ids of the interval timers that are active
    nextTimerId,        \* the id the next setInterval returns
    connectsInFlight,   \* connectTallyOdbc promises not yet settled
    disconnectsInFlight,\* disconnectTallyOdbc promises not yet settled
    startsAwaiting,     \* startDataFetching calls awaiting the initial fetch
    fetchesInFlight,    \* other fetchTallyData calls awaiting their response
    startsIssued,       \* startDataFetching invocations so far
    stopped,            \* stopDataFetching has run and no start came after
    \* TallyAnalytics
    taLoading, refreshing, tallyConnected, companyInfo, financialData,
    ledgers, vouchers, dataSource, companies, selectedCompany,
    loadingCompanies,
    companiesPc,        \* where loadCompanies is
    loadsInFlight,      \* loadTallyData calls awaiting Promise.all
    loadsIssued,        \* loadTallyData invocations so far
    lastLoad,           \* what the last completed loadTallyData fetched
    \* Chat
    messages, currentMessage, conversations, currentConversation,
    chatLoading, conversationsLoading, chatMode,
    sendsInFlight,      \* sendMessage calls awaiting the response
    convLoadsInFlight,  \* loadConversation calls awaiting the messages
    listLoadsInFlight,  \* loadConversations calls awaiting the list
    now,                \* Date.now(), one tick per sendMessage
    srvConversations,   \* the conversations the backend holds
    \* requests as axios sends them
    flags,              \* the loading / processing flag of each awaiting caller
    requests,           \* the request each caller awaits, if any
    envApiUrl,          \* process.env.REACT_APP_API_URL at build time
    token,              \* localStorage "token"
    lastRequest,        \* the last request a client method has issued
    \* Dashboard
    stats, tallyStatus, financialMetrics, dashLoading,
    dashPc,             \* where loadDashboardData is
    \* the report TallyAnalytics exports
    download,           \* the CSV handleExport last handed to the browser
    \* KnowledgeBase and EnhancedDocumentUpload
    uploader,           \* which of the two upload components is mounted
    fileUrl, webUrls, isProcessing, kbLoading, documents,
    kbAwait,            \* what the submit handler in progress awaits
    mountLoad,          \* the mount effect's loadKnowledgeBase is pending
    kbLastCall,         \* the last request the component has made
    \* AuthProvider and the routes of App
    user, authLoading, isAuthenticated,
    storedUser,         \* localStorage "user"
    authAwait,          \* the client call AuthProvider awaits, if any
    authResult,         \* how the last login / register promise settled
    path,               \* location.pathname
    redirecting,        \* window.location.href was assigned, the load pends
    \* the chat backend's chart payloads
    srvCharts           \* the chart fields the backend adds to its answers

apiVars == <<clientMethods, tallyUp, apiResult>>
tdfVars == <<mounted, isConnected, isDataFetching, connectionDetails,
             realTimeData, lastUpdated, tdfMessage, refreshInterval,
             tdfLoading, intervalRef, timers, nextTimerId, connectsInFlight,
             disconnectsInFlight, startsAwaiting, fetchesInFlight,
             startsIssued, stopped>>
taVars == <<taLoading, refreshing, tallyConnected, companyInfo, financialData,
            ledgers, vouchers, dataSource, companies, selectedCompany,
            loadingCompanies, companiesPc, loadsInFlight, loadsIssued,
            lastLoad>>
chatVars == <<messages, currentMessage, conversations, currentConversation,
              chatLoading, conversationsLoading, chatMode, sendsInFlight,
              convLoadsInFlight, listLoadsInFlight, now, srvConversations>>
netVars == <<flags, requests, envApiUrl, token, lastRequest>>
dashVars == <<stats, tallyStatus, financialMetrics, dashLoading, dashPc>>
reportVars == <<download>>
kbVars == <<uploader, fileUrl, webUrls, isProcessing, kbLoading, documents,
           kbAwait, mountLoad, kbLastCall>>
authVars == <<user, authLoading, isAuthenticated, storedUser, authAwait,
             authResult, path, redirecting>>
chartVars == <<srvCharts>>
pageVars == <<reportVars, kbVars, authVars, chartVars>>
otherVars == <<netVars, dashVars, pageVars>>
vars == <<apiVars, tdfVars, taVars, chatVars, otherVars>>

\* ------------------------------------------------- JavaScript values ---
Null == [isNull |-> TRUE]
Fulfilled(v) == [kind |-> "fulfilled", value |-> v]
Rejected(e) == [kind |-> "rejected", value |-> [error |-> e]]
\* obj.f, where an absent property reads as undefined
Has(obj, f) == f \in DOMAIN obj
\* An object without properties, and the objects that have the property f
\* with one of the values, or lack it
NoFields == [f \in {} |-> 0]
Opt(f, values) == {NoFields} \cup {f :> v : v \in values}
\* p.catch(() => fallback)
Catch(p, fallback) == IF p.kind = "rejected" THEN Fulfilled(fallback) ELSE p

\* How an HTTP request can end: a 2xx response, no response at all, or a
\* response whose status makes axios reject.
HttpOutcomes == {"ok", "network_error", "status_500"}

\* axios.get / this.api.post: fulfilled with {data: body} on a 2xx response, else rejected
AxiosRequest(http, body) ==
    IF http = "ok" THEN Fulfilled([data |-> body]) ELSE Rejected(http)

\* ------------------------------------------------------- the backend ---
\* The responses of the accounting routes, as the interface contract gives
\* them.  `up` is whether the backend's accounting connection is connected.
CompanyNames == {"Acme Co", "Beta Ltd"}
CompanyLists ==
    { <<>>, <<[name |-> "Acme Co"]>>,
      <<[name |-> "Acme Co"], [name |-> "Beta Ltd"]>> }
TestConnectionBody(up) ==
    IF up THEN [status |-> "connected", company_name |-> "Acme Co"]
          ELSE [status |-> "disconnected"]
CompaniesBody(list) == [companies |-> list]
LedgersBody(company) ==
    [status |-> "success",
     ledgers |-> <<[name |-> "Cash", parent |-> "Assets", company |-> company]>>]
VouchersBody(company) ==
    [status |-> "success",
     vouchers |-> <<[voucher_type |-> "Sales", company |-> company]>>]
StockItemsBody(company) ==
    [status |-> "success",
     stock_items |-> <<[name |-> "Widget", company |-> company]>>]
Snapshot(company, up) ==
    IF up THEN [company |-> company, revenue |-> 5, expenses |-> 3,
                profit |-> 2, net_worth |-> 7]
          ELSE [company |-> company, revenue |-> 1, expenses |-> 1,
                profit |-> 0, net_worth |-> 1]
FinancialMetricsBody(company, up) ==
    [success |-> TRUE, data |-> Snapshot(company, up),
     data_source |-> IF up THEN "live" ELSE "demo"]
\* connect / disconnect of the ODBC link, as connectToTally reads the answer
ConnectOdbcBody(up) ==
    IF up THEN [success |-> TRUE] ELSE [success |-> FALSE, error |-> "refused"]
DisconnectOdbcBody == [success |-> TRUE]

\* ---------------------------------------------------- the API client ---
\* The methods of class ApiService.
ApiServiceMethods ==
    {"register", "login", "getCurrentUser", "uploadDocument", "getDocuments",
     "getDocumentStats", "analyzeFinancialExcel", "deleteDocument",
     "processPdfUrl", "processWebUrl", "processGoogleDriveFile",
     "processGoogleDriveFolder", "processWebUrlEnhanced",
     "processMultipleSources", "previewGoogleDrive", "previewWebEnhanced",
     "previewSource", "sendMessage", "getConversations",
     "getConversationMessages", "deleteConversation", "getChatStats",
     "testTallyConnection", "getTallyCompanies", "getTallyFinancialMetrics",
     "getTallyLedgers", "getTallyVouchers", "getTallyStockItems",
     "getTallyLiveData", "getTallyFinancialSummary"}
\* The two methods TallyDataFetcher calls and ApiService does not define.
OdbcMethods == {"connectTallyOdbc", "disconnectTallyOdbc"}

\* A method without try/catch: `const response = await ...; return response.data`
ReturnData(r) == IF r.kind = "fulfilled" THEN Fulfilled(r.value.data) ELSE r
\* A method whose catch returns a fallback
ReturnDataOr(r, fallback) ==
    IF r.kind = "fulfilled" THEN Fulfilled(r.value.data) ELSE Fulfilled(fallback)

testTallyConnection(http, body) ==
    ReturnDataOr(AxiosRequest(http, body),
                 [status |-> "disconnected", message |-> "Connection failed"])
getTallyCompanies(http, body) ==
    ReturnDataOr(AxiosRequest(http, body), [companies |-> <<>>])
getTallyFinancialMetrics(http, body) ==
    ReturnDataOr(AxiosRequest(http, body),
                 [success |-> FALSE,
                  data |-> [totalRevenue |-> 0, totalExpenses |-> 0,
                            netProfit |-> 0, cashBalance |-> 0]])
getTallyLedgers(http, body) ==
    ReturnDataOr(AxiosRequest(http, body), [status |-> "error", ledgers |-> <<>>])
getTallyVouchers(http, body) ==
    ReturnDataOr(AxiosRequest(http, body), [status |-> "error", vouchers |-> <<>>])
getTallyStockItems_NoCatch(http, body) == ReturnData(AxiosRequest(http, body))
getTallyStockItems(http, body) ==
    ReturnDataOr(AxiosRequest(http, body), [status |-> "error", stock_items |-> <<>>])
getTallyLiveData(http, body) == getTallyFinancialMetrics(http, body)
\* the two ODBC calls, where the client has them: plain methods
connectTallyOdbc(http, body) == ReturnData(AxiosRequest(http, body))
disconnectTallyOdbc(http, body) == ReturnData(AxiosRequest(http, body))

TallyReads ==
    {"testTallyConnection", "getTallyCompanies", "getTallyFinancialMetrics",
     "getTallyLedgers", "getTallyVouchers", "getTallyStockItems"}
TallyRead(m, http, company, list, up) ==
    CASE m = "testTallyConnection" ->
            testTallyConnection(http, TestConnectionBody(up))
      [] m = "getTallyCompanies" ->
            getTallyCompanies(http, CompaniesBody(list))
      [] m = "getTallyFinancialMetrics" ->
            getTallyFinancialMetrics(http, FinancialMetricsBody(company, up))
      [] m = "getTallyLedgers" ->
            getTallyLedgers(http, LedgersBody(company))
      [] m = "getTallyVouchers" ->
            getTallyVouchers(http, VouchersBody(company))
      [] m = "getTallyStockItems" ->
            getTallyStockItems(http, StockItemsBody(company))

\* A caller awaits one accounting read of the client.
ApiCall ==
    /\ \E m \in TallyReads, http \in HttpOutcomes, c \in CompanyNames,
          list \in CompanyLists :
          apiResult' = [method |-> m, http |-> http,
                        settled |-> TallyRead(m, http, c, list, tallyUp)]
    /\ UNCHANGED <<clientMethods, tallyUp, tdfVars, taVars, chatVars,
                   otherVars>>

\* The accounting system comes up or goes down.
TallyToggle ==
    /\ tallyUp' = ~tallyUp
    /\ UNCHANGED <<clientMethods, apiResult, tdfVars, taVars, chatVars,
                   otherVars>>

\* -------------------------------------------------- TallyDataFetcher ---
RefreshIntervals == {10, 30, 60, 300}
NoMessage == [text |-> "", type |-> ""]
\* showMessage(msg, type)
ShowMessage(msg, type) == [text |-> msg, type |-> type]
ConnectedDetails ==
    [status |-> "Connected", type |-> "ODBC", server |-> "localhost",
     port |-> "9000"]

\* The Connect button is rendered while !isConnected and disabled while loading.
ConnectButtonEnabled_NoDisable == ~isConnected
ConnectButtonEnabled == ~isConnected /\ ~tdfLoading

\* connectToTally up to its await.  A client without connectTallyOdbc makes
\* the call throw a TypeError inside the try: catch and finally run at once.
ConnectToTally ==
    /\ mounted /\ ConnectButtonEnabled
    /\ IF "connectTallyOdbc" \in clientMethods
         THEN /\ tdfLoading' = TRUE
              /\ connectsInFlight' = connectsInFlight + 1
              /\ UNCHANGED <<isConnected, tdfMessage>>
         ELSE /\ tdfMessage' = ShowMessage("Connection error", "error")
              /\ isConnected' = FALSE
              /\ tdfLoading' = FALSE
              /\ UNCHANGED connectsInFlight
    /\ UNCHANGED <<mounted, isDataFetching, connectionDetails, realTimeData,
                   lastUpdated, refreshInterval, intervalRef, timers,
                   nextTimerId, disconnectsInFlight, startsAwaiting,
                   fetchesInFlight, startsIssued, stopped>>
    /\ UNCHANGED <<apiVars, otherVars, taVars, chatVars>>

\* connectToTally after its await: the response, the catch, the finally.
ConnectSettles ==
    /\ connectsInFlight > 0
    /\ connectsInFlight' = connectsInFlight - 1
    /\ \E http \in HttpOutcomes :
         LET r == connectTallyOdbc(http, ConnectOdbcBody(tallyUp)) IN
         IF ~mounted
           THEN UNCHANGED <<isConnected, connectionDetails, tdfMessage,
                            tdfLoading>>
           ELSE /\ tdfLoading' = FALSE
                /\ IF r.kind = "fulfilled" /\ r.value.success
                     THEN /\ isConnected' = TRUE
                          /\ connectionDetails' = ConnectedDetails
                          /\ tdfMessage' = ShowMessage("Connected", "success")
                     ELSE /\ isConnected' = FALSE
                          /\ tdfMessage' =
                               IF r.kind = "fulfilled"
                                 THEN ShowMessage("Connection failed", "error")
                                 ELSE ShowMessage("Connection error", "error")
                          /\ UNCHANGED connectionDetails
    /\ UNCHANGED <<mounted, isDataFetching, realTimeData, lastUpdated,
                   refreshInterval, intervalRef, timers, nextTimerId,
                   disconnectsInFlight, startsAwaiting, fetchesInFlight,
                   startsIssued, stopped>>
    /\ UNCHANGED <<apiVars, otherVars, taVars, chatVars>>

\* stopDataFetching: the timer intervalRef names is cleared, the ref reset
TimersAfterStop == timers \ {intervalRef}

\* The Stop button, shown while isDataFetching.
StopDataFetching ==
    /\ mounted /\ isDataFetching
    /\ timers' = TimersAfterStop
    /\ intervalRef' = 0
    /\ isDataFetching' = FALSE
    /\ tdfMessage' = ShowMessage("Stopped", "info")
    /\ stopped' = TRUE
    /\ UNCHANGED <<mounted, isConnected, connectionDetails, realTimeData,
                   lastUpdated, refreshInterval, tdfLoading, nextTimerId,
                   connectsInFlight, disconnectsInFlight, startsAwaiting,
                   fetchesInFlight, startsIssued>>
    /\ UNCHANGED <<apiVars, otherVars, taVars, chatVars>>

\* The effect cleanup at unmount runs stopDataFetching; the component's state
\* is gone afterwards, its ref and the timers are not.
Unmount ==
    /\ mounted
    /\ mounted' = FALSE
    /\ timers' = TimersAfterStop
    /\ intervalRef' = 0
    /\ stopped' = TRUE
    /\ UNCHANGED <<isConnected, isDataFetching, connectionDetails,
                   realTimeData, lastUpdated, tdfMessage, refreshInterval,
                   tdfLoading, nextTimerId, connectsInFlight,
                   disconnectsInFlight, startsAwaiting, fetchesInFlight,
                   startsIssued>>
    /\ UNCHANGED <<apiVars, otherVars, taVars, chatVars>>

\* disconnectFromTally up to its await (the button is shown while isConnected).
DisconnectFromTally ==
    /\ mounted /\ isConnected
    /\ disconnectsInFlight < MaxInFlight
    /\ IF "disconnectTallyOdbc" \in clientMethods
         THEN /\ disconnectsInFlight' = disconnectsInFlight + 1
              /\ UNCHANGED tdfMessage
         ELSE /\ tdfMessage' = ShowMessage("Disconnect error", "error")
              /\ UNCHANGED disconnectsInFlight
    /\ UNCHANGED <<mounted, isConnected, isDataFetching, connectionDetails,
                   realTimeData, lastUpdated, refreshInterval, tdfLoading,
                   intervalRef, timers, nextTimerId, connectsInFlight,
                   startsAwaiting, fetchesInFlight, startsIssued, stopped>>
    /\ UNCHANGED <<apiVars, otherVars, taVars, chatVars>>

\* disconnectFromTally after its await: the state is reset in the try only.
DisconnectSettles ==
    /\ disconnectsInFlight > 0
    /\ disconnectsInFlight' = disconnectsInFlight - 1
    /\ \E http \in HttpOutcomes :
         LET r == disconnectTallyOdbc(http, DisconnectOdbcBody) IN
         IF r.kind = "fulfilled"
           THEN /\ timers' = TimersAfterStop
                /\ intervalRef' = 0
                /\ stopped' = TRUE
                /\ IF mounted
                     THEN /\ isConnected' = FALSE
                          /\ connectionDetails' = Null
                          /\ isDataFetching' = FALSE
                          /\ tdfMessage' = ShowMessage("Disconnected", "info")
                     ELSE UNCHANGED <<isConnected, connectionDetails,
                                      isDataFetching, tdfMessage>>
           ELSE /\ tdfMessage' =
                     IF mounted THEN ShowMessage("Disconnect error", "error")
                                ELSE tdfMessage
                /\ UNCHANGED <<timers, intervalRef, stopped, isConnected,
                               connectionDetails, isDataFetching>>
    /\ UNCHANGED <<mounted, realTimeData, lastUpdated, refreshInterval,
                   tdfLoading, nextTimerId, connectsInFlight, startsAwaiting,
                   fetchesInFlight, startsIssued>>
    /\ UNCHANGED <<apiVars, otherVars, taVars, chatVars>>

\* fetchTallyData after its await.  getTallyLiveData never rejects, so the
\* catch of fetchTallyData is dead; an unmounted component's setters do nothing.
FetchEffects(http) ==
    LET response ==
          getTallyLiveData(http, FinancialMetricsBody("Acme Co", tallyUp)).value
    IN  IF ~mounted
          THEN UNCHANGED <<realTimeData, lastUpdated, isConnected, tdfMessage>>
          ELSE IF response.success
                 THEN /\ realTimeData' = response.data
                      /\ lastUpdated' = "date"
                      /\ UNCHANGED <<isConnected, tdfMessage>>
                 ELSE /\ isConnected' = FALSE
                      /\ tdfMessage' = ShowMessage("Data fetch failed", "warning")
                      /\ UNCHANGED <<realTimeData, lastUpdated>>

\* startDataFetching up to `await fetchTallyData()` (the Start button is shown
\* while !isDataFetching and disabled while !isConnected).
StartDataFetching ==
    /\ mounted /\ ~isDataFetching /\ isConnected
    /\ startsIssued < MaxStarts
    /\ startsIssued' = startsIssued + 1
    /\ isDataFetching' = TRUE
    /\ tdfMessage' = ShowMessage("Started", "success")
    /\ startsAwaiting' = startsAwaiting + 1
    /\ stopped' = FALSE
    /\ UNCHANGED <<mounted, isConnected, connectionDetails, realTimeData,
                   lastUpdated, refreshInterval, tdfLoading, intervalRef,
                   timers, nextTimerId, connectsInFlight, disconnectsInFlight,
                   fetchesInFlight>>
    /\ UNCHANGED <<apiVars, otherVars, taVars, chatVars>>

\* startDataFetching after the await: the initial fetch has settled, and the
\* timer is created and stored in intervalRef whatever happened meanwhile.
StartFetchSettles ==
    /\ startsAwaiting > 0
    /\ startsAwaiting' = startsAwaiting - 1
    /\ \E http \in HttpOutcomes : FetchEffects(http)
    /\ timers' = timers \cup {nextTimerId}
    /\ intervalRef' = nextTimerId
    /\ nextTimerId' = nextTimerId + 1
    /\ UNCHANGED <<mounted, isDataFetching, connectionDetails, refreshInterval,
                   tdfLoading, connectsInFlight, disconnectsInFlight,
                   fetchesInFlight, startsIssued, stopped>>
    /\ UNCHANGED <<apiVars, otherVars, taVars, chatVars>>

\* An interval timer fires and calls fetchTallyData.
TimerTick ==
    /\ timers # {}
    /\ fetchesInFlight < MaxInFlight
    /\ fetchesInFlight' = fetchesInFlight + 1
    /\ UNCHANGED <<mounted, isConnected, isDataFetching, connectionDetails,
                   realTimeData, lastUpdated, tdfMessage, refreshInterval,
                   tdfLoading, intervalRef, timers, nextTimerId,
                   connectsInFlight, disconnectsInFlight, startsAwaiting,
                   startsIssued, stopped>>
    /\ UNCHANGED <<apiVars, otherVars, taVars, chatVars>>

\* The "Fetch Data Now" button, disabled while !isConnected.
FetchNow ==
    /\ mounted /\ isConnected
    /\ fetchesInFlight < MaxInFlight
    /\ fetchesInFlight' = fetchesInFlight + 1
    /\ UNCHANGED <<mounted, isConnected, isDataFetching, connectionDetails,
                   realTimeData, lastUpdated, tdfMessage, refreshInterval,
                   tdfLoading, intervalRef, timers, nextTimerId,
                   connectsInFlight, disconnectsInFlight, startsAwaiting,
                   startsIssued, stopped>>
    /\ UNCHANGED <<apiVars, otherVars, taVars, chatVars>>

\* A fetchTallyData started by a timer or by the button settles.
FetchSettles ==
    /\ fetchesInFlight > 0
    /\ fetchesInFlight' = fetchesInFlight - 1
    /\ \E http \in HttpOutcomes : FetchEffects(http)
    /\ UNCHANGED <<mounted, isDataFetching, connectionDetails, refreshInterval,
                   tdfLoading, intervalRef, timers, nextTimerId,
                   connectsInFlight, disconnectsInFlight, startsAwaiting,
                   startsIssued, stopped>>
    /\ UNCHANGED <<apiVars, otherVars, taVars, chatVars>>

\* The interval select, disabled while isDataFetching.
SetRefreshInterval ==
    /\ mounted /\ ~isDataFetching
    /\ \E v \in RefreshIntervals \ {refreshInterval} : refreshInterval' = v
    /\ UNCHANGED <<mounted, isConnected, isDataFetching, connectionDetails,
                   realTimeData, lastUpdated, tdfMessage, tdfLoading,
                   intervalRef, timers, nextTimerId, connectsInFlight,
                   disconnectsInFlight, startsAwaiting, fetchesInFlight,
                   startsIssued, stopped>>
    /\ UNCHANGED <<apiVars, otherVars, taVars, chatVars>>

\* The "Clear Data" button.
ClearData ==
    /\ mounted
    /\ realTimeData' = Null
    /\ UNCHANGED <<mounted, isConnected, isDataFetching, connectionDetails,
                   lastUpdated, tdfMessage, refreshInterval, tdfLoading,
                   intervalRef, timers, nextTimerId, connectsInFlight,
                   disconnectsInFlight, startsAwaiting, fetchesInFlight,
                   startsIssued, stopped>>
    /\ UNCHANGED <<apiVars, otherVars, taVars, chatVars>>

\* The timeout showMessage sets: the text is cleared, the type stays.
ClearMessage ==
    /\ mounted /\ tdfMessage.text # ""
    /\ tdfMessage' = [tdfMessage EXCEPT !.text = ""]
    /\ UNCHANGED <<mounted, isConnected, isDataFetching, connectionDetails,
                   realTimeData, lastUpdated, refreshInterval, tdfLoading,
                   intervalRef, timers, nextTimerId, connectsInFlight,
                   disconnectsInFlight, startsAwaiting, fetchesInFlight,
                   startsIssued, stopped>>
    /\ UNCHANGED <<apiVars, otherVars, taVars, chatVars>>

\* ---------------------------------------------------- TallyAnalytics ---
\* obj.f for an object-valued, a string-valued and an array-valued property;
\* undefined reads as Null, "" and the empty array, which are as falsy or as
\* empty as undefined in every test the page makes.
ObjField(obj, f) == IF Has(obj, f) THEN obj[f] ELSE Null
StrField(obj, f) == IF Has(obj, f) THEN obj[f] ELSE ""
\* a || b on strings
StrOr(a, b) == IF a # "" THEN a ELSE b

\* The page shows the spinner instead of its content.
LoadingScreen == loadingCompanies \/ (taLoading /\ selectedCompany = "")
\* The badges beside "Last Updated", and the notice under the header.
DemoBadgeShown == ~LoadingScreen /\ dataSource = "demo"
LiveBadgeShown == ~LoadingScreen /\ dataSource = "tally_live"
NoDataNoticeShown == ~LoadingScreen /\ financialData = Null /\ ~taLoading

\* result.ledgers, else result.data?.ledgers, else [] (no response of the
\* contract has an array as its data)
ExtractList(result, f) ==
    IF Has(result, f) THEN result[f]
    ELSE IF Has(ObjField(result, "data"), f) THEN result.data[f]
    ELSE <<>>

\* metricsResult.status === 'success' || metricsResult.success
MetricsSucceeded(r) ==
    (Has(r, "status") /\ r.status = "success") \/ (Has(r, "success") /\ r.success)

\* The three places loadTallyData looks for the metrics, in its order.
ExtractMetrics(r) ==
    IF ~MetricsSucceeded(r) THEN Null
    ELSE IF ObjField(r, "metrics") # Null THEN r.metrics
    ELSE IF ObjField(ObjField(r, "data"), "metrics") # Null THEN r.data.metrics
    ELSE ObjField(r, "data")

\* ... and the provenance tag that goes with each place.
ExtractSource_AlwaysLive(r) ==
    IF ExtractMetrics(r) = Null THEN "unknown" ELSE "tally_live"
ExtractSource(r) ==
    IF ~MetricsSucceeded(r) THEN "unknown"
    ELSE IF ObjField(r, "metrics") # Null
      THEN StrOr(StrField(r, "data_source"), "tally_live")
    ELSE IF ObjField(ObjField(r, "data"), "metrics") # Null
      THEN StrOr(StrField(r.data, "data_source"),
                 StrOr(StrField(r, "data_source"), "tally_live"))
    ELSE IF ObjField(r, "data") # Null
      THEN StrOr(StrField(r, "data_source"), "tally_live")
    ELSE "unknown"

NoLoad == [done |-> FALSE, company |-> "", connected |-> FALSE, http |-> "none"]

\* The mount effect: loadCompanies up to `await testTallyConnection()`.
LoadCompanies ==
    /\ companiesPc = "start"
    /\ companiesPc' = "testing"
    /\ loadingCompanies' = TRUE
    /\ UNCHANGED <<taLoading, refreshing, tallyConnected, companyInfo,
                   financialData, ledgers, vouchers, dataSource, companies,
                   selectedCompany, loadsInFlight, loadsIssued, lastLoad>>
    /\ UNCHANGED <<apiVars, otherVars, tdfVars, chatVars>>

\* loadCompanies after the connection test: not connected ends it.
TestConnectionSettles ==
    /\ companiesPc = "testing"
    /\ \E http \in HttpOutcomes :
         LET connectionTest ==
               Catch(testTallyConnection(http, TestConnectionBody(tallyUp)),
                     [status |-> "disconnected"]).value
         IN  /\ tallyConnected' = (connectionTest.status = "connected")
             /\ IF connectionTest.status = "connected"
                  THEN /\ companyInfo' = connectionTest
                       /\ companiesPc' = "companies"
                       /\ UNCHANGED loadingCompanies
                  ELSE /\ companiesPc' = "done"
                       /\ loadingCompanies' = FALSE
                       /\ UNCHANGED companyInfo
    /\ UNCHANGED <<taLoading, refreshing, financialData, ledgers, vouchers,
                   dataSource, companies, selectedCompany, loadsInFlight,
                   loadsIssued, lastLoad>>
    /\ UNCHANGED <<apiVars, otherVars, tdfVars, chatVars>>

\* loadCompanies after the company list: the first company is selected, and
\* the effect on selectedCompany starts loadTallyData for it.
CompaniesSettle ==
    /\ companiesPc = "companies"
    /\ companiesPc' = "done"
    /\ loadingCompanies' = FALSE
    /\ \E http \in HttpOutcomes, list \in CompanyLists :
         LET companyList ==
               Catch(getTallyCompanies(http, CompaniesBody(list)),
                     [companies |-> <<>>]).value.companies
         IN  /\ companies' = companyList
             /\ IF Len(companyList) > 0 /\ selectedCompany = ""
                  THEN /\ selectedCompany' = companyList[1].name
                       /\ taLoading' = TRUE
                       /\ loadsInFlight' =
                            Append(loadsInFlight,
                                   [company |-> companyList[1].name,
                                    refresh |-> FALSE])
                       /\ loadsIssued' = loadsIssued + 1
                  ELSE UNCHANGED <<selectedCompany, taLoading, loadsInFlight,
                                   loadsIssued>>
    /\ UNCHANGED <<refreshing, tallyConnected, companyInfo, financialData,
                   ledgers, vouchers, dataSource, lastLoad>>
    /\ UNCHANGED <<apiVars, otherVars, tdfVars, chatVars>>

\* The company select: the effect on selectedCompany starts loadTallyData.
SelectCompany ==
    /\ ~LoadingScreen /\ Len(companies) > 0
    /\ loadsIssued < MaxLoads
    /\ \E i \in 1..Len(companies) :
         /\ companies[i].name # selectedCompany
         /\ selectedCompany' = companies[i].name
         /\ loadsInFlight' = Append(loadsInFlight,
                                    [company |-> companies[i].name,
                                     refresh |-> FALSE])
    /\ taLoading' = TRUE
    /\ loadsIssued' = loadsIssued + 1
    /\ UNCHANGED <<refreshing, tallyConnected, companyInfo, financialData,
                   ledgers, vouchers, dataSource, companies, loadingCompanies,
                   companiesPc, lastLoad>>
    /\ UNCHANGED <<apiVars, otherVars, tdfVars, chatVars>>

\* The Refresh button, disabled while refreshing: handleRefresh up to the
\* await inside loadTallyData (which returns at once without a company).
HandleRefresh ==
    /\ ~LoadingScreen /\ ~refreshing
    /\ loadsIssued < MaxLoads
    /\ loadsIssued' = loadsIssued + 1
    /\ IF selectedCompany = ""
         THEN /\ taLoading' = FALSE
              /\ UNCHANGED <<refreshing, loadsInFlight>>
         ELSE /\ taLoading' = TRUE
              /\ refreshing' = TRUE
              /\ loadsInFlight' = Append(loadsInFlight,
                                         [company |-> selectedCompany,
                                          refresh |-> TRUE])
    /\ UNCHANGED <<tallyConnected, companyInfo, financialData, ledgers,
                   vouchers, dataSource, companies, selectedCompany,
                   loadingCompanies, companiesPc, lastLoad>>
    /\ UNCHANGED <<apiVars, otherVars, tdfVars, chatVars>>

\* loadTallyData after Promise.all: the three results are taken apart and
\* stored; handleRefresh, when it was the caller, then clears refreshing.
LoadSettles ==
    /\ \E i \in 1..Len(loadsInFlight),
          httpL \in HttpOutcomes, httpV \in HttpOutcomes, httpM \in HttpOutcomes :
         LET load == loadsInFlight[i]
             ledgersResult ==
               Catch(getTallyLedgers(httpL, LedgersBody(load.company)),
                     [status |-> "error", ledgers |-> <<>>]).value
             vouchersResult ==
               Catch(getTallyVouchers(httpV, VouchersBody(load.company)),
                     [status |-> "error", vouchers |-> <<>>]).value
             metricsResult ==
               Catch(getTallyFinancialMetrics(
                       httpM, FinancialMetricsBody(load.company, tallyUp)),
                     [status |-> "error", metrics |-> Null]).value
         IN  /\ ledgers' = ExtractList(ledgersResult, "ledgers")
             /\ vouchers' = ExtractList(vouchersResult, "vouchers")
             /\ financialData' = ExtractMetrics(metricsResult)
             /\ dataSource' = ExtractSource(metricsResult)
             /\ refreshing' = IF load.refresh THEN FALSE ELSE refreshing
             /\ lastLoad' = [done |-> TRUE, company |-> load.company,
                             connected |-> tallyUp, http |-> httpM]
             /\ loadsInFlight' =
                  SubSeq(loadsInFlight, 1, i - 1) \o
                  SubSeq(loadsInFlight, i + 1, Len(loadsInFlight))
    /\ taLoading' = FALSE
    /\ UNCHANGED <<tallyConnected, companyInfo, companies, selectedCompany,
                   loadingCompanies, companiesPc, loadsIssued>>
    /\ UNCHANGED <<apiVars, otherVars, tdfVars, chatVars>>

\* -------------------------------------------------------------- Chat ---
\* Text is a sequence of characters.
Rep(c, n) == [i \in 1..n |-> c]
\* the length from which a title is cut
TitleLimit == 50
\* What the user can type into the input.
Typed ==
    { <<" ">>, <<" ">> \o Rep("a", TitleLimit) \o <<" ">>,
      Rep("a", TitleLimit + 1) }

\* String.prototype.trim
RECURSIVE TrimLeft(_)
TrimLeft(s) ==
    IF s # <<>> /\ Head(s) = " " THEN TrimLeft(Tail(s)) ELSE s
RECURSIVE TrimRight(_)
TrimRight(s) ==
    IF s # <<>> /\ s[Len(s)] = " "
      THEN TrimRight(SubSeq(s, 1, Len(s) - 1)) ELSE s
Trim(s) == TrimRight(TrimLeft(s))
\* s.substring(0, n)
Substring0(s, n) == SubSeq(s, 1, IF Len(s) < n THEN Len(s) ELSE n)

\* The title sendMessage gives a conversation it has just learnt of.
DeriveTitle_OffByOne(userMessage) ==
    Substring0(userMessage, TitleLimit) \o
    (IF Len(userMessage) >= TitleLimit THEN <<".", ".", ".">> ELSE <<>>)
DeriveTitle(userMessage) ==
    Substring0(userMessage, TitleLimit) \o
    (IF Len(userMessage) > TitleLimit THEN <<".", ".", ".">> ELSE <<>>)

\* apiService.sendMessage: the request it posts.  conversationId is Null for
\* null or undefined, and then the payload has no conversation_id.
SendMessageRequest_DefaultMode(message, conversationId, mode) ==
    [url |-> "/chat/", mode |-> "rag",
     payload |-> IF conversationId = Null
                   THEN [message |-> message]
                   ELSE [message |-> message,
                         conversation_id |-> conversationId.id]]
SendMessageRequest(message, conversationId, mode) ==
    [url |-> "/chat/", mode |-> mode,
     payload |-> IF conversationId = Null
                   THEN [message |-> message]
                   ELSE [message |-> message,
                         conversation_id |-> conversationId.id]]
\* currentConversation?.id
ConversationIdOf(conv) == IF conv = Null THEN Null ELSE [id |-> conv.id]

\* The backend's side of a chat turn, as the chat contract gives it: the turn
\* goes to the conversation named, or to a new one.
SrvIds == { srvConversations[k].id : k \in 1..Len(srvConversations) }
SrvFreshId == Len(srvConversations) + 1
SrvTargetId(request) ==
    IF Has(request.payload, "conversation_id")
      THEN request.payload.conversation_id ELSE SrvFreshId
SrvTurn(request, n) ==
    << [id |-> [kind |-> "srv-user", n |-> n], role |-> "user",
        content |-> request.payload.message],
       [id |-> [kind |-> "srv-assistant", n |-> n], role |-> "assistant",
        content |-> <<"o", "k">>] >>
SrvAfterTurn(request, n) ==
    IF SrvTargetId(request) \in SrvIds
      THEN [k \in 1..Len(srvConversations) |->
              IF srvConversations[k].id = SrvTargetId(request)
                THEN [srvConversations[k] EXCEPT
                        !.msgs = @ \o SrvTurn(request, n)]
                ELSE srvConversations[k]]
      ELSE Append(srvConversations,
                  [id |-> SrvTargetId(request),
                   title |-> request.payload.message,
                   msgs |-> SrvTurn(request, n)])
ChatResponse(request) ==
    [message |-> <<"o", "k">>, sources |-> <<>>,
     conversation_id |-> SrvTargetId(request),
     context_used |-> (request.mode = "rag")] @@ srvCharts
\* GET /chat/conversations and GET .../messages
SrvConversationList ==
    [k \in 1..Len(srvConversations) |->
       [id |-> srvConversations[k].id, title |-> srvConversations[k].title]]
SrvMessagesOf(id) ==
    IF \E k \in 1..Len(srvConversations) : srvConversations[k].id = id
      THEN LET k == CHOOSE j \in 1..Len(srvConversations) :
                      srvConversations[j].id = id
           IN  srvConversations[k].msgs
      ELSE <<>>

\* apiService.sendMessage and getConversationMessages have no try/catch;
\* getConversations retries the old route after a 404 and rethrows otherwise.
ChatHttpOutcomes == HttpOutcomes \cup {"status_404"}
sendMessage(http, request) == ReturnData(AxiosRequest(http, ChatResponse(request)))
getConversationMessages(http, body) == ReturnData(AxiosRequest(http, body))
getConversations(http, fallbackHttp, body) ==
    IF http = "status_404"
      THEN ReturnData(AxiosRequest(fallbackHttp, body))
      ELSE ReturnData(AxiosRequest(http, body))

\* Chart values as they arrive in JSON: null, a text, or an object
Truthy(v) == v # Null /\ v # [text |-> ""]
\* typeof v === 'object'
IsObject(v) == ~Has(v, "text")
\* The chart payload sendMessage puts on the assistant message
ExtractCharts_TopLevelFirst(response) ==
    IF /\ Has(response, "charts") /\ Truthy(response.charts)
       /\ IsObject(response.charts)
      THEN response.charts
    ELSE IF /\ Has(response, "financial_insights")
            /\ Truthy(response.financial_insights)
            /\ Has(response.financial_insights, "charts")
            /\ Truthy(response.financial_insights.charts)
      THEN response.financial_insights.charts
    ELSE Null
ExtractCharts(response) ==
    LET chartData ==
          IF /\ Has(response, "charts") /\ Truthy(response.charts)
             /\ IsObject(response.charts)
            THEN response.charts ELSE Null
    IN  IF /\ Has(response, "financial_insights")
           /\ Truthy(response.financial_insights)
           /\ Has(response.financial_insights, "charts")
           /\ Truthy(response.financial_insights.charts)
          THEN response.financial_insights.charts
          ELSE chartData

\* messages.filter((msg) => msg.id !== id)
RECURSIVE WithoutId(_, _)
WithoutId(msgs, id) ==
    IF msgs = <<>> THEN <<>>
    ELSE IF Head(msgs).id = id THEN WithoutId(Tail(msgs), id)
    ELSE <<Head(msgs)>> \o WithoutId(Tail(msgs), id)

RemoveAt(seq, i) == SubSeq(seq, 1, i - 1) \o SubSeq(seq, i + 1, Len(seq))

\* The text input, disabled while loading.
SetCurrentMessage ==
    /\ ~chatLoading
    /\ \E t \in Typed \ {currentMessage} : currentMessage' = t
    /\ UNCHANGED <<messages, conversations, currentConversation, chatLoading,
                   conversationsLoading, chatMode, sendsInFlight,
                   convLoadsInFlight, listLoadsInFlight, now,
                   srvConversations>>
    /\ UNCHANGED <<apiVars, otherVars, tdfVars, taVars>>

\* The guard at the top of sendMessage (and of its submit button).
MaySend == Trim(currentMessage) # <<>> /\ ~chatLoading

\* sendMessage up to `await apiService.sendMessage(...)`: the temporary
\* message is shown, and the request is made from what this render holds.
SendMessage ==
    /\ MaySend
    /\ now < MaxSends
    /\ now' = now + 1
    /\ LET userMessage == Trim(currentMessage)
           tempId == [kind |-> "temp", n |-> now + 1]
       IN  /\ messages' = Append(messages,
                                 [id |-> tempId, role |-> "user",
                                  content |-> userMessage])
           /\ sendsInFlight' =
                Append(sendsInFlight,
                       [n |-> now + 1, userMessage |-> userMessage,
                        tempId |-> tempId,
                        currentConversation |-> currentConversation,
                        request |-> SendMessageRequest(
                                      userMessage,
                                      ConversationIdOf(currentConversation),
                                      chatMode)])
    /\ currentMessage' = <<>>
    /\ chatLoading' = TRUE
    /\ UNCHANGED <<conversations, currentConversation, conversationsLoading,
                   chatMode, convLoadsInFlight, listLoadsInFlight,
                   srvConversations>>
    /\ UNCHANGED <<apiVars, otherVars, tdfVars, taVars>>

\* sendMessage after the await, when the request succeeded: the temporary
\* message gives way to the pair of the turn; a conversation this render did
\* not have becomes the current one and the list is loaded again, awaited
\* before the finally.
SendSucceeds ==
    \E i \in 1..Len(sendsInFlight) :
      LET send == sendsInFlight[i]
          response == sendMessage("ok", send.request).value
          isNewConv == \/ send.currentConversation = Null
                       \/ send.currentConversation.id # response.conversation_id
      IN  /\ srvConversations' = SrvAfterTurn(send.request, send.n)
          /\ messages' =
               WithoutId(messages, send.tempId) \o
               << [id |-> [kind |-> "user", n |-> send.n], role |-> "user",
                   content |-> send.userMessage],
                  [id |-> [kind |-> "assistant", n |-> send.n],
                   role |-> "assistant", content |-> response.message,
                   sources |-> response.sources,
                   charts |-> ExtractCharts(response),
                   context_used |-> response.context_used] >>
          /\ IF isNewConv
               THEN /\ currentConversation' =
                         [id |-> response.conversation_id,
                          title |-> DeriveTitle(send.userMessage)]
                    /\ conversationsLoading' = TRUE
                    /\ listLoadsInFlight' =
                         Append(listLoadsInFlight, [fromSend |-> TRUE])
                    /\ UNCHANGED chatLoading
               ELSE /\ chatLoading' = FALSE
                    /\ UNCHANGED <<currentConversation, conversationsLoading,
                                   listLoadsInFlight>>
          /\ sendsInFlight' = RemoveAt(sendsInFlight, i)
          /\ UNCHANGED <<currentMessage, conversations, chatMode,
                         convLoadsInFlight, now>>
          /\ UNCHANGED <<apiVars, otherVars, tdfVars, taVars>>

\* sendMessage after the await, when the request was rejected: the catch
\* takes the temporary message out again, the finally clears loading.
SendFails ==
    \E i \in 1..Len(sendsInFlight), http \in HttpOutcomes \ {"ok"} :
      LET send == sendsInFlight[i] IN
          /\ sendMessage(http, send.request).kind = "rejected"
          /\ messages' = WithoutId(messages, send.tempId)
          /\ chatLoading' = FALSE
          /\ sendsInFlight' = RemoveAt(sendsInFlight, i)
          /\ UNCHANGED <<currentMessage, conversations, currentConversation,
                         conversationsLoading, chatMode, convLoadsInFlight,
                         listLoadsInFlight, now, srvConversations>>
          /\ UNCHANGED <<apiVars, otherVars, tdfVars, taVars>>

\* A click on a conversation of the sidebar (listed once the list has
\* loaded): loadConversation up to its await.
LoadConversation ==
    /\ ~conversationsLoading
    /\ Len(convLoadsInFlight) < MaxInFlight
    /\ \E k \in 1..Len(conversations) :
         convLoadsInFlight' = Append(convLoadsInFlight, conversations[k])
    /\ chatLoading' = TRUE
    /\ UNCHANGED <<messages, currentMessage, conversations,
                   currentConversation, conversationsLoading, chatMode,
                   sendsInFlight, listLoadsInFlight, now,
                   srvConversations>>
    /\ UNCHANGED <<apiVars, otherVars, tdfVars, taVars>>

\* loadConversation after the await; its finally clears loading.
ConversationLoaded ==
    /\ \E i \in 1..Len(convLoadsInFlight), http \in HttpOutcomes :
         LET conv == convLoadsInFlight[i]
             r == getConversationMessages(http, SrvMessagesOf(conv.id))
         IN  /\ IF r.kind = "fulfilled"
                  THEN /\ currentConversation' = conv
                       /\ messages' = r.value
                  ELSE UNCHANGED <<currentConversation, messages>>
             /\ convLoadsInFlight' = RemoveAt(convLoadsInFlight, i)
    /\ chatLoading' = FALSE
    /\ UNCHANGED <<currentMessage, conversations, conversationsLoading,
                   chatMode, sendsInFlight, listLoadsInFlight, now,
                   srvConversations>>
    /\ UNCHANGED <<apiVars, otherVars, tdfVars, taVars>>

\* loadConversations after its await (it is started by the mount effect and
\* by sendMessage): an empty list forces general mode; a sendMessage that
\* awaited it then runs its finally.
ConversationsLoaded ==
    /\ \E i \in 1..Len(listLoadsInFlight), http \in ChatHttpOutcomes :
       \E fallbackHttp \in (IF http = "status_404" THEN HttpOutcomes
                                                    ELSE {"ok"}) :
         LET r == getConversations(http, fallbackHttp, SrvConversationList)
         IN  /\ IF r.kind = "fulfilled"
                  THEN /\ conversations' = r.value
                       /\ chatMode' = IF r.value = <<>> THEN "general"
                                                         ELSE chatMode
                  ELSE UNCHANGED <<conversations, chatMode>>
             /\ chatLoading' = IF listLoadsInFlight[i].fromSend THEN FALSE
                                                                 ELSE chatLoading
             /\ listLoadsInFlight' = RemoveAt(listLoadsInFlight, i)
    /\ conversationsLoading' = FALSE
    /\ UNCHANGED <<messages, currentMessage, currentConversation,
                   sendsInFlight, convLoadsInFlight, now,
                   srvConversations>>
    /\ UNCHANGED <<apiVars, otherVars, tdfVars, taVars>>

\* The "New Chat" button.
StartNewConversation ==
    /\ currentConversation' = Null
    /\ messages' = <<>>
    /\ UNCHANGED <<currentMessage, conversations, chatLoading,
                   conversationsLoading, chatMode, sendsInFlight,
                   convLoadsInFlight, listLoadsInFlight, now,
                   srvConversations>>
    /\ UNCHANGED <<apiVars, otherVars, tdfVars, taVars>>

\* The General button, and the Document button (disabled with no conversations).
SetChatMode ==
    /\ \E mode \in {"general", "rag"} :
         /\ mode # chatMode
         /\ mode = "rag" => Len(conversations) > 0
         /\ chatMode' = mode
    /\ UNCHANGED <<messages, currentMessage, conversations,
                   currentConversation, chatLoading, conversationsLoading,
                   sendsInFlight, convLoadsInFlight, listLoadsInFlight, now, srvConversations>>
    /\ UNCHANGED <<apiVars, otherVars, tdfVars, taVars>>

\* ------------------------------------------ requests as axios sends ---
\* API_BASE_URL: process.env.REACT_APP_API_URL || the default ("" is unset)
DefaultApiUrl == "http://localhost:8001/api/v1"
DeployedApiUrl == "https://rag-chatbot-backend-XXXX.onrender.com/api/v1"
ApiUrls == {"", DeployedApiUrl}
ApiBaseUrl == IF envApiUrl # "" THEN envApiUrl ELSE DefaultApiUrl
\* what localStorage holds under "token" ("" is no item)
Tokens == {"", "jwt"}

\* The methods that call the global axios with a literal URL; the others go
\* through this.api, the instance the constructor creates.
RawAxiosMethods ==
    {"testTallyConnection", "getTallyCompanies", "getTallyFinancialMetrics",
     "getTallyLedgers", "getTallyVouchers", "getTallyStockItems",
     "getTallyLiveData", "getTallyFinancialSummary"}
ClientOf(m) == IF m \in RawAxiosMethods THEN "axios" ELSE "this.api"
\* The request interceptor of this.api: Authorization is set when a token is stored.
RequestInterceptor(config) ==
    IF token # "" THEN [config EXCEPT !.authorization = token] ELSE config
\* The request a method hands to the network.
RequestOf(m) ==
    IF ClientOf(m) = "this.api"
      THEN RequestInterceptor([method |-> m, base |-> ApiBaseUrl,
                               authorization |-> ""])
      ELSE [method |-> m, base |-> "http://localhost:8001/api/v1",
            authorization |-> ""]
NoRequest == [method |-> "none", base |-> "", authorization |-> ""]

\* A client method is called and issues its request.
IssueRequest ==
    /\ \E m \in ApiServiceMethods : lastRequest' = RequestOf(m)
    /\ UNCHANGED <<flags, requests, envApiUrl, token>>
    /\ UNCHANGED <<apiVars, tdfVars, taVars, chatVars, dashVars, pageVars>>
\* AuthContext login / register store the token; logout, and the response
\* interceptor on a 401, remove it.
StoreToken ==
    /\ token = ""
    /\ token' = "jwt"
    /\ UNCHANGED <<flags, requests, envApiUrl, lastRequest>>
    /\ UNCHANGED <<apiVars, tdfVars, taVars, chatVars, dashVars, pageVars>>
RemoveToken ==
    /\ token # ""
    /\ token' = ""
    /\ UNCHANGED <<flags, requests, envApiUrl, lastRequest>>
    /\ UNCHANGED <<apiVars, tdfVars, taVars, chatVars, dashVars, pageVars>>

\* The timeout of a request: axios.create is given none and no call passes
\* one, so the instance and the global axios both keep axios's default, 0,
\* which means no timeout.
InstanceTimeout == 0
GlobalTimeout == 0
TimeoutOf(m) == IF ClientOf(m) = "this.api" THEN InstanceTimeout ELSE GlobalTimeout

\* The callers that hold a flag while they await the client, and the method
\* each awaits first: `set flag; try { await ... } finally { clear flag }`.
Callers == {"Chat", "KnowledgeBase", "TallyAnalytics", "Dashboard"}
Awaits(c) ==
    CASE c = "Chat" -> "sendMessage"
      [] c = "KnowledgeBase" -> "processPdfUrl"
      [] c = "TallyAnalytics" -> "testTallyConnection"
      [] c = "Dashboard" -> "getDocumentStats"
NotPending == [pending |-> FALSE, silent |-> FALSE, waited |-> 0]

\* A caller sets its flag and awaits its request; the server will answer
\* it (with a response or an error) or stay silent.
CallerStarts(c) ==
    /\ ~requests[c].pending
    /\ \E silent \in BOOLEAN :
         requests' = [requests EXCEPT
                        ![c] = [pending |-> TRUE, silent |-> silent,
                                waited |-> 0]]
    /\ flags' = [flags EXCEPT ![c] = TRUE]
    /\ lastRequest' = RequestOf(Awaits(c))
    /\ UNCHANGED <<envApiUrl, token>>
    /\ UNCHANGED <<apiVars, tdfVars, taVars, chatVars, dashVars, pageVars>>
\* Time passes for the pending requests.
TimePasses ==
    /\ \E c \in Callers : requests[c].pending /\ requests[c].waited < MaxWait
    /\ requests' =
         [c \in Callers |->
            IF requests[c].pending /\ requests[c].waited < MaxWait
              THEN [requests[c] EXCEPT !.waited = @ + 1]
              ELSE requests[c]]
    /\ UNCHANGED <<flags, envApiUrl, token, lastRequest>>
    /\ UNCHANGED <<apiVars, tdfVars, taVars, chatVars, dashVars, pageVars>>
\* The promise of a request settles, by the server's answer or by axios's
\* timeout when one is set; the caller's catch and finally run.
MaySettle(c) ==
    /\ requests[c].pending
    /\ \/ ~requests[c].silent
       \/ /\ TimeoutOf(Awaits(c)) > 0
          /\ requests[c].waited >= TimeoutOf(Awaits(c))
RequestSettles(c) ==
    /\ MaySettle(c)
    /\ requests' = [requests EXCEPT ![c] = NotPending]
    /\ flags' = [flags EXCEPT ![c] = FALSE]
    /\ UNCHANGED <<envApiUrl, token, lastRequest>>
    /\ UNCHANGED <<apiVars, tdfVars, taVars, chatVars, dashVars, pageVars>>

\* --------------------------------------------------------- Dashboard ---
\* GET /documents/stats and GET /chat/stats, as the backend answers them
DocumentStatsBody(n) ==
    [total_documents |-> n, processed_documents |-> n,
     vector_stats |-> [total_chunks |-> 4 * n]]
ChatStatsBody(n) == [total_conversations |-> n]
StatCounts == {0, 1, 3}
getDocumentStats(http, body) ==
    ReturnDataOr(AxiosRequest(http, body),
                 [total_documents |-> 0, processed_documents |-> 0,
                  vector_stats |-> [total_chunks |-> 0]])
getChatStats(http, body) ==
    ReturnDataOr(AxiosRequest(http, body), [total_conversations |-> 0])

InitialMetrics ==
    [totalRevenue |-> 0, totalExpenses |-> 0, netProfit |-> 0,
     cashBalance |-> 0]
NotConnectedStatus == [connected |-> FALSE, companyName |-> ""]
\* The properties the Financial Overview cards call toLocaleString() on.
CardFields == {"totalRevenue", "totalExpenses", "netProfit", "cashBalance"}
\* The cards are rendered: past the loading screen, Tally connected.
CardsRendered == ~dashLoading /\ tallyStatus.connected
\* undefined.toLocaleString() throws a TypeError during render.
RenderThrows ==
    CardsRendered /\ \E f \in CardFields : ~Has(financialMetrics, f)

\* loadDashboardData after Promise.all of the two stats calls.
DashStatsSettle ==
    /\ dashPc = "stats"
    /\ \E httpD \in HttpOutcomes, httpC \in HttpOutcomes,
          nd \in StatCounts, nc \in StatCounts :
         LET documentStats == getDocumentStats(httpD, DocumentStatsBody(nd)).value
             chatStats == getChatStats(httpC, ChatStatsBody(nc)).value
         IN  stats' = [documents |-> documentStats.total_documents,
                       processedDocuments |-> documentStats.processed_documents,
                       totalChunks |-> documentStats.vector_stats.total_chunks,
                       conversations |-> chatStats.total_conversations]
    /\ dashPc' = "test"
    /\ UNCHANGED <<tallyStatus, financialMetrics, dashLoading>>
    /\ UNCHANGED <<apiVars, tdfVars, taVars, chatVars, netVars, pageVars>>
\* ... after the connection test: connected goes on to the metrics, anything
\* else ends the load.
DashTestSettles ==
    /\ dashPc = "test"
    /\ \E http \in HttpOutcomes :
         LET tallyTest ==
               testTallyConnection(http, TestConnectionBody(tallyUp)).value
         IN  IF tallyTest.status = "connected"
               THEN /\ tallyStatus' = [connected |-> TRUE,
                                       companyName |-> tallyTest.company_name]
                    /\ dashPc' = "metrics"
                    /\ UNCHANGED dashLoading
               ELSE /\ tallyStatus' = NotConnectedStatus
                    /\ dashPc' = "done"
                    /\ dashLoading' = FALSE
    /\ UNCHANGED <<stats, financialMetrics>>
    /\ UNCHANGED <<apiVars, tdfVars, taVars, chatVars, netVars, pageVars>>
\* ... after the financial metrics: a successful answer's data becomes the
\* financialMetrics state as it is; the finally clears loading.
DashMetricsSettle ==
    /\ dashPc = "metrics"
    /\ \E http \in HttpOutcomes :
         LET metrics ==
               getTallyFinancialMetrics(
                 http, FinancialMetricsBody(tallyStatus.companyName,
                                            tallyUp)).value
         IN  financialMetrics' =
               IF metrics.success THEN metrics.data ELSE financialMetrics
    /\ dashPc' = "done"
    /\ dashLoading' = FALSE
    /\ UNCHANGED <<stats, tallyStatus>>
    /\ UNCHANGED <<apiVars, tdfVars, taVars, chatVars, netVars, pageVars>>
\* The user leaves the page and comes back: a new Dashboard mounts and its
\* effect starts loadDashboardData.
DashRemount ==
    /\ dashPc = "done"
    /\ stats' = [documents |-> 0, conversations |-> 0,
                 processedDocuments |-> 0, totalChunks |-> 0]
    /\ tallyStatus' = NotConnectedStatus
    /\ financialMetrics' = InitialMetrics
    /\ dashLoading' = TRUE
    /\ dashPc' = "stats"
    /\ UNCHANGED <<apiVars, tdfVars, taVars, chatVars, netVars, pageVars>>

\* ------------------------------------- TallyAnalytics: derived values ---
\* a || b || 0 over two properties holding numbers: an absent property reads
\* as undefined, and undefined and 0 are both falsy
NumOr(obj, f1, f2) ==
    IF Has(obj, f1) /\ obj[f1] # 0 THEN obj[f1]
    ELSE IF Has(obj, f2) /\ obj[f2] # 0 THEN obj[f2]
    ELSE 0
\* a || b || fallback over two properties holding text: "" is falsy
TextOr(obj, f1, f2, fallback) ==
    IF Has(obj, f1) /\ obj[f1] # "" THEN obj[f1]
    ELSE IF Has(obj, f2) /\ obj[f2] # "" THEN obj[f2]
    ELSE fallback
\* `${obj.f}` in a template literal
Interpolate(obj, f) == IF Has(obj, f) THEN obj[f] ELSE "undefined"
Abs(n) == IF n < 0 THEN 0 - n ELSE n
\* The bar / pie chart of the key figures
revenueExpenseData ==
    IF financialData # Null
    THEN << [name |-> "Revenue",
             value |-> NumOr(financialData, "revenue", "totalRevenue")],
            [name |-> "Expenses",
             value |-> NumOr(financialData, "expenses", "totalExpenses")],
            [name |-> "Profit",
             value |-> NumOr(financialData, "profit", "netProfit")] >>
    ELSE <<>>
\* The ledgers of the balance chart: those with a name, the first ten
Named(l) == TextOr(l, "name", "ledger_name", "") # ""
topLedgers ==
    LET named == SelectSeq(ledgers, Named)
        first == SubSeq(named, 1, IF Len(named) < 10 THEN Len(named) ELSE 10)
    IN [k \in 1..Len(first) |->
          [name |-> TextOr(first[k], "name", "ledger_name", ""),
           balance |-> Abs(NumOr(first[k], "opening_balance", "balance"))]]
\* One row of the ledger table
LedgerRow(ledger) ==
    [name |-> TextOr(ledger, "name", "ledger_name", "N/A"),
     group |-> TextOr(ledger, "parent", "group", "N/A"),
     balance |-> NumOr(ledger, "opening_balance", "balance")]
\* The CSV, line by line: the metrics block reads one property per figure,
\* the ledger lines take the name from `name` alone
generateCSV ==
    [metrics |->
       IF financialData # Null
       THEN << [name |-> "Revenue",
                value |-> NumOr(financialData, "revenue", "revenue")],
               [name |-> "Expenses",
                value |-> NumOr(financialData, "expenses", "expenses")],
               [name |-> "Profit",
                value |-> NumOr(financialData, "profit", "profit")] >>
       ELSE <<>>,
     ledgers |->
       [k \in 1..Len(ledgers) |->
          [name |-> Interpolate(ledgers[k], "name"),
           group |-> TextOr(ledgers[k], "parent", "group", "N/A"),
           balance |-> NumOr(ledgers[k], "opening_balance", "balance")]]]
NoDownload == [exported |-> FALSE, metrics |-> <<>>, ledgers |-> <<>>]
\* The Export button
HandleExport ==
    /\ ~LoadingScreen
    /\ download' = [exported |-> TRUE] @@ generateCSV
    /\ UNCHANGED <<apiVars, tdfVars, taVars, chatVars, netVars, dashVars,
                   kbVars, authVars, chartVars>>

\* ------------------------------- KnowledgeBase, EnhancedDocumentUpload ---
\* Text is a sequence of pieces: " " is white space, the other pieces are
\* runs of characters without white space.
Page == <<"https://", "example.com/", "page">>
\* What the user can type into the file link input.
FileUrls ==
    { <<>>, <<" ">>,
      <<"https://", "drive.google.com/", "drive/folders/", "abc">>,
      <<"https://", "drive.google.com/", "file/", "d/", "abc">>,
      <<"https://", "drive.google.com/", "uc?id=", "abc">>,
      <<"https://", "drive.google.com/", "drive/folders/", "abc", "?from=",
        "drive.google.com/", "file/">>,
      <<" ", "https://", "example.com/", "a.pdf">>,
      <<"not", " ", "a", " ", "link">> }
\* What the user can type into a web URL field.
WebTexts == { <<>>, <<" ">>, Page }
\* String.prototype.includes
Includes(s, part) ==
    \E i \in 1..(Len(s) - Len(part) + 1) :
        SubSeq(s, i, i + Len(part) - 1) = part
DriveFolderPart == <<"drive.google.com/", "drive/folders/">>
DriveFilePart == <<"drive.google.com/", "file/">>
DriveUcPart == <<"drive.google.com/", "uc?id=">>

\* The requests of the client's ingestion methods and of the raw axios post
\* of EnhancedDocumentUpload: the path, the form field, what is sent in it.
NoCall == [method |-> "none", path |-> "", field |-> "", arg |-> <<>>]
processPdfUrl(url) ==
    [method |-> "processPdfUrl", path |-> "/documents/process-pdf-url",
     field |-> "pdf_url", arg |-> <<url>>]
processGoogleDriveFile(url) ==
    [method |-> "processGoogleDriveFile",
     path |-> "/documents/process-google-drive-file",
     field |-> "drive_url", arg |-> <<url>>]
processGoogleDriveFolder(url) ==
    [method |-> "processGoogleDriveFolder",
     path |-> "/documents/process-google-drive-folder",
     field |-> "folder_url", arg |-> <<url>>]
processMultipleSources(urls) ==
    [method |-> "processMultipleSources",
     path |-> "/documents/process-multiple-sources",
     field |-> "sources", arg |-> urls]
AxiosPostMultipleSources(urls) ==
    [method |-> "axios.post",
     path |-> "/api/v1/documents/process-multiple-sources",
     field |-> "", arg |-> urls]
GetDocumentsCall ==
    [method |-> "getDocuments", path |-> "/documents/", field |-> "",
     arg |-> <<>>]
\* The list the backend answers getDocuments with
DocumentsBody == << [filename |-> "a.pdf", status |-> "completed"] >>

NotAwaiting == [handler |-> "none", step |-> "none"]
Awaiting(handler, step) == [handler |-> handler, step |-> step]

\* onChange of the file link input (disabled while processing)
SetFileUrl ==
    /\ uploader = "KnowledgeBase"
    /\ ~isProcessing
    /\ \E u \in FileUrls \ {fileUrl} : fileUrl' = u
    /\ UNCHANGED <<uploader, webUrls, isProcessing, kbLoading, documents,
                   kbAwait, mountLoad, kbLastCall>>
    /\ UNCHANGED <<apiVars, tdfVars, taVars, chatVars, netVars, dashVars,
                   reportVars, authVars, chartVars>>

\* The method handleFileUrlSubmit picks for the link
FileUrlRequest_FileFirst(url) ==
    IF Includes(url, DriveFilePart) \/ Includes(url, DriveUcPart)
      THEN processGoogleDriveFile(url)
    ELSE IF Includes(url, DriveFolderPart) THEN processGoogleDriveFolder(url)
    ELSE processPdfUrl(url)
FileUrlRequest(url) ==
    IF Includes(url, DriveFolderPart) THEN processGoogleDriveFolder(url)
    ELSE IF Includes(url, DriveFilePart) \/ Includes(url, DriveUcPart)
      THEN processGoogleDriveFile(url)
    ELSE processPdfUrl(url)
\* "Process File" is enabled
FileSubmitEnabled == ~isProcessing /\ Trim(fileUrl) # <<>>
\* handleFileUrlSubmit up to the await of the ingestion request
HandleFileUrlSubmit ==
    /\ uploader = "KnowledgeBase"
    /\ FileSubmitEnabled
    /\ IF Trim(fileUrl) = <<>>
         THEN UNCHANGED <<isProcessing, kbAwait, kbLastCall>>
         ELSE /\ isProcessing' = TRUE
              /\ kbLastCall' = FileUrlRequest(fileUrl)
              /\ kbAwait' = Awaiting("file", "ingest")
    /\ UNCHANGED <<uploader, fileUrl, webUrls, kbLoading, documents,
                   mountLoad>>
    /\ UNCHANGED <<apiVars, tdfVars, taVars, chatVars, netVars, dashVars,
                   reportVars, authVars, chartVars>>

\* webUrls.filter(url => url.trim()).map(url => url.trim())
RECURSIVE ValidUrls(_)
ValidUrls(urls) ==
    IF urls = <<>> THEN <<>>
    ELSE (IF Trim(Head(urls)) # <<>> THEN <<Trim(Head(urls))>> ELSE <<>>)
         \o ValidUrls(Tail(urls))
\* "Process URLs" is enabled
WebSubmitEnabled ==
    ~isProcessing /\ \E i \in 1..Len(webUrls) : Trim(webUrls[i]) # <<>>
\* handleWebUrlsSubmit up to the await of the ingestion request
HandleWebUrlsSubmit ==
    /\ WebSubmitEnabled
    /\ IF ValidUrls(webUrls) = <<>>
         THEN UNCHANGED <<isProcessing, kbAwait, kbLastCall>>
         ELSE /\ isProcessing' = TRUE
              /\ kbLastCall' =
                   IF uploader = "KnowledgeBase"
                     THEN processMultipleSources(ValidUrls(webUrls))
                     ELSE AxiosPostMultipleSources(ValidUrls(webUrls))
              /\ kbAwait' = Awaiting("web", "ingest")
    /\ UNCHANGED <<uploader, fileUrl, webUrls, kbLoading, documents,
                   mountLoad>>
    /\ UNCHANGED <<apiVars, tdfVars, taVars, chatVars, netVars, dashVars,
                   reportVars, authVars, chartVars>>

\* The ingestion request settles: on success the input is reset and, in
\* KnowledgeBase, loadKnowledgeBase is started and awaited; on failure the
\* catch shows a toast and the finally clears isProcessing.  The answer to
\* an accepted request carries the Document records, so the response.data
\* EnhancedDocumentUpload tests is truthy.
IngestSettlesWith(http) ==
    /\ kbAwait.step = "ingest"
    /\   IF http = "ok"
         THEN /\ fileUrl' = IF kbAwait.handler = "file" THEN <<>> ELSE fileUrl
              /\ webUrls' =
                   IF kbAwait.handler = "web" THEN << <<>> >> ELSE webUrls
              /\ IF uploader = "KnowledgeBase"
                   THEN /\ kbLoading' = TRUE
                        /\ kbLastCall' = GetDocumentsCall
                        /\ kbAwait' = Awaiting(kbAwait.handler, "reload")
                        /\ UNCHANGED isProcessing
                   ELSE /\ isProcessing' = FALSE
                        /\ kbAwait' = NotAwaiting
                        /\ UNCHANGED <<kbLoading, kbLastCall>>
         ELSE /\ isProcessing' = FALSE
              /\ kbAwait' = NotAwaiting
              /\ UNCHANGED <<fileUrl, webUrls, kbLoading, kbLastCall>>
    /\ UNCHANGED <<uploader, documents, mountLoad>>
    /\ UNCHANGED <<apiVars, tdfVars, taVars, chatVars, netVars, dashVars,
                   reportVars, authVars, chartVars>>

IngestSettles == \E http \in HttpOutcomes : IngestSettlesWith(http)

\* loadKnowledgeBase after its Promise.all has settled
LoadKnowledgeBaseEnds(http) ==
    /\ documents' = IF http = "ok" THEN DocumentsBody ELSE documents
    /\ kbLoading' = FALSE
\* The reload a submit handler awaits settles; the handler's finally runs.
ReloadSettles ==
    /\ kbAwait.step = "reload"
    /\ \E http \in HttpOutcomes : LoadKnowledgeBaseEnds(http)
    /\ isProcessing' = FALSE
    /\ kbAwait' = NotAwaiting
    /\ UNCHANGED <<uploader, fileUrl, webUrls, mountLoad, kbLastCall>>
    /\ UNCHANGED <<apiVars, tdfVars, taVars, chatVars, netVars, dashVars,
                   reportVars, authVars, chartVars>>
\* The mount effect's loadKnowledgeBase settles.
MountLoadSettles ==
    /\ mountLoad
    /\ \E http \in HttpOutcomes : LoadKnowledgeBaseEnds(http)
    /\ mountLoad' = FALSE
    /\ UNCHANGED <<uploader, fileUrl, webUrls, isProcessing, kbAwait,
                   kbLastCall>>
    /\ UNCHANGED <<apiVars, tdfVars, taVars, chatVars, netVars, dashVars,
                   reportVars, authVars, chartVars>>

\* "Add Another URL" (disabled at five fields and while processing)
AddWebUrlField_SixFields ==
    /\ ~isProcessing /\ ~(Len(webUrls) >= 6)
    /\ webUrls' = IF Len(webUrls) < 6 THEN Append(webUrls, <<>>) ELSE webUrls
    /\ UNCHANGED <<uploader, fileUrl, isProcessing, kbLoading, documents,
                   kbAwait, mountLoad, kbLastCall>>
    /\ UNCHANGED <<apiVars, tdfVars, taVars, chatVars, netVars, dashVars,
                   reportVars, authVars, chartVars>>
AddWebUrlField ==
    /\ ~isProcessing /\ ~(Len(webUrls) >= 5)
    /\ webUrls' = IF Len(webUrls) < 5 THEN Append(webUrls, <<>>) ELSE webUrls
    /\ UNCHANGED <<uploader, fileUrl, isProcessing, kbLoading, documents,
                   kbAwait, mountLoad, kbLastCall>>
    /\ UNCHANGED <<apiVars, tdfVars, taVars, chatVars, netVars, dashVars,
                   reportVars, authVars, chartVars>>
\* The X beside a field (shown only when there are several fields)
RemoveWebUrlField ==
    /\ ~isProcessing /\ Len(webUrls) > 1
    /\ \E index \in 1..Len(webUrls) :
         webUrls' = IF Len(webUrls) > 1 THEN RemoveAt(webUrls, index)
                                        ELSE webUrls
    /\ UNCHANGED <<uploader, fileUrl, isProcessing, kbLoading, documents,
                   kbAwait, mountLoad, kbLastCall>>
    /\ UNCHANGED <<apiVars, tdfVars, taVars, chatVars, netVars, dashVars,
                   reportVars, authVars, chartVars>>
\* onChange of a web URL field
UpdateWebUrl ==
    /\ ~isProcessing
    /\ \E index \in 1..Len(webUrls) :
         \E value \in WebTexts \ {webUrls[index]} :
            webUrls' = [webUrls EXCEPT ![index] = value]
    /\ UNCHANGED <<uploader, fileUrl, isProcessing, kbLoading, documents,
                   kbAwait, mountLoad, kbLastCall>>
    /\ UNCHANGED <<apiVars, tdfVars, taVars, chatVars, netVars, dashVars,
                   reportVars, authVars, chartVars>>

\* ------------------------------------------ AuthProvider and the routes ---
\* The user object of the backend's answers, and localStorage's text of it
Ann == [username |-> "ann"]
JsonStringify(v) == [json |-> v]
\* What register and login resolve to when accepted
AuthBody == [access_token |-> "jwt", user |-> Ann]
\* How a request through this.api can end: status 0 stands for no response
\* at all; detail is the error text of the body, "" when it has none.
Accepted == [status |-> 200, detail |-> ""]
AuthFailures ==
    { [status |-> 0, detail |-> ""],
      [status |-> 401, detail |-> "Incorrect username or password"],
      [status |-> 400, detail |-> "Username already registered"],
      [status |-> 500, detail |-> ""] }
AuthResponses == {Accepted} \cup AuthFailures

\* The response interceptor of this.api, as what it leaves in localStorage
\* and whether it has assigned window.location.href
ResponseInterceptor(resp) ==
    IF resp.status = 401
      THEN [token |-> "", storedUser |-> Null, redirecting |-> TRUE]
      ELSE [token |-> token, storedUser |-> storedUser,
            redirecting |-> redirecting]

\* The routes of App
PublicPaths == {"/login", "/register"}
ProtectedPaths ==
    {"/dashboard", "/tally-analytics", "/knowledge-base", "/chat",
     "/tally-realtime"}
Paths == PublicPaths \cup ProtectedPaths \cup {"/", "/nowhere"}
LoadingWrapper == [kind |-> "spinner", name |-> ""]
Navigate(to) == [kind |-> "navigate", name |-> to]
PageAt(p) == [kind |-> "page", name |-> p]
ProtectedRoute_NoGuard(children) ==
    IF authLoading THEN LoadingWrapper ELSE children
ProtectedRoute(children) ==
    IF authLoading THEN LoadingWrapper
    ELSE IF isAuthenticated THEN children ELSE Navigate("/login")
PublicRoute(children) ==
    IF authLoading THEN LoadingWrapper
    ELSE IF isAuthenticated THEN Navigate("/dashboard") ELSE children
RouteElement(p) ==
    IF p \in PublicPaths THEN PublicRoute(PageAt(p))
    ELSE IF p \in ProtectedPaths THEN ProtectedRoute(PageAt(p))
    ELSE Navigate("/dashboard")
\* What the router shows at the current location
Rendered == RouteElement(path)
LayoutShown == Rendered.kind = "page" /\ Rendered.name \in ProtectedPaths

NotSettled == [kind |-> "none", message |-> ""]
\* err.response?.data?.detail || fallback
AuthErrorMessage_DefaultOnly(resp, fallback) == fallback
AuthErrorMessage(resp, fallback) ==
    IF resp.detail # "" THEN resp.detail ELSE fallback
DefaultMessage(call) ==
    IF call = "login" THEN "Login failed" ELSE "Registration failed"

\* login / register up to the await of the client call; the pages that call
\* them are the ones at /login and /register.
BeginAuthCall(call) ==
    /\ Rendered = PageAt(IF call = "login" THEN "/login" ELSE "/register")
    /\ authAwait = "none"
    /\ authLoading' = TRUE
    /\ authAwait' = call
    /\ UNCHANGED <<user, isAuthenticated, storedUser, authResult, path,
                   redirecting>>
    /\ UNCHANGED <<apiVars, tdfVars, taVars, chatVars, netVars, dashVars,
                   reportVars, kbVars, chartVars>>
Login == BeginAuthCall("login")
Register == BeginAuthCall("register")

\* The client call of login / register settles: the response interceptor,
\* then the rest of the try, or the catch; then the finally.
AuthCallSettlesWith(resp) ==
    /\ authAwait \in {"login", "register"}
    /\ IF resp = Accepted
         THEN /\ token' = AuthBody.access_token
              /\ storedUser' = JsonStringify(AuthBody.user)
              /\ user' = AuthBody.user
              /\ isAuthenticated' = TRUE
              /\ authResult' = [kind |-> "fulfilled", message |-> ""]
              /\ UNCHANGED redirecting
         ELSE /\ token' = ResponseInterceptor(resp).token
              /\ storedUser' = ResponseInterceptor(resp).storedUser
              /\ redirecting' = ResponseInterceptor(resp).redirecting
              /\ authResult' =
                   [kind |-> "rejected",
                    message |-> AuthErrorMessage(resp,
                                                 DefaultMessage(authAwait))]
              /\ UNCHANGED <<user, isAuthenticated>>
    /\ authLoading' = FALSE
    /\ authAwait' = "none"
    /\ UNCHANGED path
    /\ UNCHANGED <<flags, requests, envApiUrl, lastRequest>>
    /\ UNCHANGED <<apiVars, tdfVars, taVars, chatVars, dashVars, reportVars,
                   kbVars, chartVars>>
AuthCallSettles == \E resp \in AuthResponses : AuthCallSettlesWith(resp)

\* initializeAuth after its getCurrentUser has settled
InitializeAuthSettlesWith(resp) ==
    /\ authAwait = "getCurrentUser"
    /\ IF resp = Accepted
         THEN /\ user' = Ann
              /\ isAuthenticated' = TRUE
              /\ UNCHANGED <<token, storedUser, redirecting>>
         ELSE /\ token' = ""
              /\ storedUser' = Null
              /\ redirecting' = ResponseInterceptor(resp).redirecting
              /\ user' = Null
              /\ isAuthenticated' = FALSE
    /\ authLoading' = FALSE
    /\ authAwait' = "none"
    /\ UNCHANGED <<authResult, path>>
    /\ UNCHANGED <<flags, requests, envApiUrl, lastRequest>>
    /\ UNCHANGED <<apiVars, tdfVars, taVars, chatVars, dashVars, reportVars,
                   kbVars, chartVars>>
InitializeAuthSettles ==
    \E resp \in AuthResponses : InitializeAuthSettlesWith(resp)

\* A request of one of the protected pages, made through this.api, settles;
\* the pages catch what it rejects with.
PageRequestSettlesWith(resp) ==
    /\ LayoutShown
    /\ token' = ResponseInterceptor(resp).token
    /\ storedUser' = ResponseInterceptor(resp).storedUser
    /\ redirecting' = ResponseInterceptor(resp).redirecting
    /\ UNCHANGED <<user, authLoading, isAuthenticated, authAwait, authResult,
                   path>>
    /\ UNCHANGED <<flags, requests, envApiUrl, lastRequest>>
    /\ UNCHANGED <<apiVars, tdfVars, taVars, chatVars, dashVars, reportVars,
                   kbVars, chartVars>>
PageRequestSettles ==
    \E resp \in AuthResponses : PageRequestSettlesWith(resp)

\* Layout's handleLogout: logout(), then navigate('/login')
Logout ==
    /\ LayoutShown
    /\ token' = ""
    /\ storedUser' = Null
    /\ user' = Null
    /\ isAuthenticated' = FALSE
    /\ path' = "/login"
    /\ UNCHANGED <<authLoading, authAwait, authResult, redirecting>>
    /\ UNCHANGED <<flags, requests, envApiUrl, lastRequest>>
    /\ UNCHANGED <<apiVars, tdfVars, taVars, chatVars, dashVars, reportVars,
                   kbVars, chartVars>>

\* The document is loaded at p: a new AuthProvider, whose initializeAuth
\* runs up to its await; what the old document awaited is gone.
LoadPage(p) ==
    /\ user' = Null
    /\ isAuthenticated' = FALSE
    /\ authAwait' =
         IF token # "" /\ storedUser # Null THEN "getCurrentUser" ELSE "none"
    /\ authLoading' = (token # "" /\ storedUser # Null)
    /\ authResult' = NotSettled
    /\ path' = p
    /\ redirecting' = FALSE
    /\ UNCHANGED storedUser
    /\ UNCHANGED <<apiVars, tdfVars, taVars, chatVars, netVars, dashVars,
                   reportVars, kbVars, chartVars>>
\* The load the response interceptor asked for
RedirectLoads == redirecting /\ LoadPage("/login")
\* The user opens an address, or reloads
OpenUrl == ~redirecting /\ \E p \in Paths : LoadPage(p)
\* A <Navigate> that is rendered takes effect
FollowNavigate ==
    /\ Rendered.kind = "navigate"
    /\ path' = Rendered.name
    /\ UNCHANGED <<user, authLoading, isAuthenticated, storedUser, authAwait,
                   authResult, redirecting>>
    /\ UNCHANGED <<apiVars, tdfVars, taVars, chatVars, netVars, dashVars,
                   reportVars, kbVars, chartVars>>
\* A link of the page shown, or the history, changes the location
GoTo ==
    /\ Rendered.kind # "navigate"
    /\ \E p \in Paths \ {path} : path' = p
    /\ UNCHANGED <<user, authLoading, isAuthenticated, storedUser, authAwait,
                   authResult, redirecting>>
    /\ UNCHANGED <<apiVars, tdfVars, taVars, chatVars, netVars, dashVars,
                   reportVars, kbVars, chartVars>>

\* ---------------------------------------------------- specifications ---
NoResult == [method |-> "none", http |-> "none", settled |-> Fulfilled(Null)]
OldConversation ==
    [id |-> 1, title |-> <<"o", "l", "d">>,
     msgs |-> SrvTurn(SendMessageRequest(<<"o", "l", "d">>, Null, "rag"), 0)]

InitApi(methods) ==
    /\ clientMethods = methods
    /\ tallyUp = FALSE
    /\ apiResult = NoResult
\* TallyDataFetcher as its useState and useRef calls leave it
InitTdf ==
    /\ mounted = TRUE
    /\ isConnected = FALSE
    /\ isDataFetching = FALSE
    /\ connectionDetails = Null
    /\ realTimeData = Null
    /\ lastUpdated = "null"
    /\ tdfMessage = NoMessage
    /\ refreshInterval = 30
    /\ tdfLoading = FALSE
    /\ intervalRef = 0
    /\ timers = {}
    /\ nextTimerId = 1
    /\ connectsInFlight = 0
    /\ disconnectsInFlight = 0
    /\ startsAwaiting = 0
    /\ fetchesInFlight = 0
    /\ startsIssued = 0
    /\ stopped = FALSE
\* TallyAnalytics as its useState calls leave it
InitTa ==
    /\ taLoading = TRUE
    /\ refreshing = FALSE
    /\ tallyConnected = FALSE
    /\ companyInfo = Null
    /\ financialData = Null
    /\ ledgers = <<>>
    /\ vouchers = <<>>
    /\ dataSource = "unknown"
    /\ companies = <<>>
    /\ selectedCompany = ""
    /\ loadingCompanies = FALSE
    /\ companiesPc = "start"
    /\ loadsInFlight = <<>>
    /\ loadsIssued = 0
    /\ lastLoad = NoLoad
\* Chat as its useState calls leave it, the mount effect's loadConversations
\* awaiting the list; the backend holds the conversations `srv`.
InitChat(srv) ==
    /\ messages = <<>>
    /\ currentMessage = <<>>
    /\ conversations = <<>>
    /\ currentConversation = Null
    /\ chatLoading = FALSE
    /\ conversationsLoading = TRUE
    /\ chatMode = "rag"
    /\ sendsInFlight = <<>>
    /\ convLoadsInFlight = <<>>
    /\ listLoadsInFlight = <<[fromSend |-> FALSE]>>
    /\ now = 0
    /\ srvConversations = srv

\* No request made yet; the build has no REACT_APP_API_URL, nobody is logged in
InitNet(url) ==
    /\ flags = [c \in Callers |-> FALSE]
    /\ requests = [c \in Callers |-> NotPending]
    /\ envApiUrl = url
    /\ token = ""
    /\ lastRequest = NoRequest
\* Dashboard as its useState calls leave it, the mount effect's
\* loadDashboardData awaiting the stats
InitDash ==
    /\ stats = [documents |-> 0, conversations |-> 0,
                processedDocuments |-> 0, totalChunks |-> 0]
    /\ tallyStatus = NotConnectedStatus
    /\ financialMetrics = InitialMetrics
    /\ dashLoading = TRUE
    /\ dashPc = "stats"
\* Nothing exported yet
InitReport == download = NoDownload
\* An upload component as its useState calls leave it; KnowledgeBase has its
\* mount effect's loadKnowledgeBase awaiting the list.
InitKb(component) ==
    /\ uploader = component
    /\ fileUrl = <<>>
    /\ webUrls = << <<>> >>
    /\ isProcessing = FALSE
    /\ kbLoading = (component = "KnowledgeBase")
    /\ documents = <<>>
    /\ kbAwait = NotAwaiting
    /\ mountLoad = (component = "KnowledgeBase")
    /\ kbLastCall =
         IF component = "KnowledgeBase" THEN GetDocumentsCall ELSE NoCall
\* A page load at path p: AuthProvider as its useState calls leave it, and
\* initializeAuth run up to its await, or to its end when it has none.
InitAuth(p, tok, saved) ==
    /\ user = Null
    /\ isAuthenticated = FALSE
    /\ storedUser = saved
    /\ authAwait = IF tok # "" /\ saved # Null THEN "getCurrentUser" ELSE "none"
    /\ authLoading = (tok # "" /\ saved # Null)
    /\ authResult = NotSettled
    /\ path = p
    /\ redirecting = FALSE
\* The answers of the chat backend carry no chart fields
InitCharts(fields) == srvCharts = fields
InitPages ==
    /\ InitReport /\ InitKb("KnowledgeBase") /\ InitAuth("/", "", Null)
    /\ InitCharts(NoFields)
InitOther == InitNet("") /\ InitDash /\ InitPages

\* The API client and the real-time page, as shipped.
Init ==
    InitApi(ApiServiceMethods) /\ InitTdf /\ InitTa /\ InitChat(<<>>)
    /\ InitOther
Next ==
    \/ ApiCall
    \/ TallyToggle
    \/ ConnectToTally
    \/ Unmount
    \/ SetRefreshInterval
    \/ ClearData
    \/ ClearMessage
Spec == Init /\ [][Next]_vars

\* The real-time page over a client that has the two ODBC methods it calls.
InitOdbc ==
    InitApi(ApiServiceMethods \cup OdbcMethods) /\ InitTdf /\ InitTa
    /\ InitChat(<<>>) /\ InitOther
NextOdbc ==
    \/ TallyToggle
    \/ ConnectToTally
    \/ ConnectSettles
    \/ DisconnectFromTally
    \/ DisconnectSettles
    \/ StartDataFetching
    \/ StartFetchSettles
    \/ StopDataFetching
    \/ TimerTick
    \/ FetchNow
    \/ FetchSettles
    \/ Unmount
    \/ SetRefreshInterval
    \/ ClearData
    \/ ClearMessage
SpecOdbc == InitOdbc /\ [][NextOdbc]_vars

\* The analytics page over the client as shipped.
NextAnalytics ==
    \/ TallyToggle
    \/ LoadCompanies
    \/ TestConnectionSettles
    \/ CompaniesSettle
    \/ SelectCompany
    \/ HandleRefresh
    \/ LoadSettles
SpecAnalytics == Init /\ [][NextAnalytics]_vars

\* The Chat page, the backend holding no conversation or one.
InitChatPage ==
    /\ InitApi(ApiServiceMethods) /\ InitTdf /\ InitTa /\ InitOther
    /\ \E srv \in {<<>>, <<OldConversation>>} : InitChat(srv)
NextChat ==
    \/ SetCurrentMessage
    \/ SendMessage
    \/ SendSucceeds
    \/ SendFails
    \/ LoadConversation
    \/ ConversationLoaded
    \/ ConversationsLoaded
    \/ StartNewConversation
    \/ SetChatMode
SpecChat == InitChatPage /\ [][NextChat]_vars

\* The callers awaiting the client, with the scheduling the runtime gives:
\* time passes, and a promise that may settle does.
NextCalls ==
    \/ \E c \in Callers : CallerStarts(c)
    \/ TimePasses
    \/ \E c \in Callers : RequestSettles(c)
SpecCalls ==
    /\ Init /\ [][NextCalls]_vars
    /\ WF_vars(TimePasses)
    /\ \A c \in Callers : WF_vars(RequestSettles(c))

\* The requests of the client, for a build with and without REACT_APP_API_URL.
InitRequests ==
    /\ InitApi(ApiServiceMethods) /\ InitTdf /\ InitTa /\ InitChat(<<>>)
    /\ InitDash /\ InitPages
    /\ \E url \in ApiUrls : InitNet(url)
NextRequests == IssueRequest \/ StoreToken \/ RemoveToken
SpecRequests == InitRequests /\ [][NextRequests]_vars

\* The analytics page after a load, over the records a backend with variant
\* field naming can answer with: each property absent, falsy or set.
LedgerRecords ==
    {n1 @@ n2 @@ g1 @@ g2 @@ b1 @@ b2 :
       n1 \in Opt("name", {"", "Cash"}),
       n2 \in Opt("ledger_name", {"", "Bank"}),
       g1 \in Opt("parent", {"", "Assets"}),
       g2 \in Opt("group", {"", "Current"}),
       b1 \in Opt("opening_balance", {0, 5}),
       b2 \in Opt("balance", {0, -7})}
MetricsRecords ==
    {r1 @@ r2 @@ e1 @@ e2 @@ p1 @@ p2 :
       r1 \in Opt("revenue", {0, 5}),
       r2 \in Opt("totalRevenue", {0, 6}),
       e1 \in Opt("expenses", {0, 3}),
       e2 \in Opt("totalExpenses", {0, 4}),
       p1 \in Opt("profit", {0, 2}),
       p2 \in Opt("netProfit", {0, 1})}
InitLoaded(metrics, list) ==
    /\ taLoading = FALSE
    /\ refreshing = FALSE
    /\ tallyConnected = TRUE
    /\ companyInfo = Null
    /\ financialData = metrics
    /\ ledgers = list
    /\ vouchers = <<>>
    /\ dataSource = "live"
    /\ companies = <<CHOOSE c \in CompanyNames : TRUE>>
    /\ selectedCompany = CHOOSE c \in CompanyNames : TRUE
    /\ loadingCompanies = FALSE
    /\ companiesPc = "done"
    /\ loadsInFlight = <<>>
    /\ loadsIssued = 1
    /\ lastLoad = NoLoad
InitReportPage ==
    /\ InitApi(ApiServiceMethods) /\ InitTdf /\ InitChat(<<>>) /\ InitOther
    /\ \/ \E m \in MetricsRecords : InitLoaded(m, <<>>)
       \/ \E l \in LedgerRecords : InitLoaded(Null, <<l>>)
NextReport == HandleExport
SpecReport == InitReportPage /\ [][NextReport]_vars

\* One of the two upload components, over the client as shipped.
InitUpload ==
    /\ InitApi(ApiServiceMethods) /\ InitTdf /\ InitTa /\ InitChat(<<>>)
    /\ InitNet("") /\ InitDash /\ InitReport /\ InitAuth("/", "", Null)
    /\ InitCharts(NoFields)
    /\ \E c \in {"KnowledgeBase", "EnhancedDocumentUpload"} : InitKb(c)
NextUpload ==
    \/ SetFileUrl
    \/ HandleFileUrlSubmit
    \/ HandleWebUrlsSubmit
    \/ IngestSettles
    \/ ReloadSettles
    \/ MountLoadSettles
    \/ AddWebUrlField
    \/ RemoveWebUrlField
    \/ UpdateWebUrl
SpecUpload == InitUpload /\ [][NextUpload]_vars

\* AuthProvider and the routes, from a first visit or a return with a
\* session stored.
InitAuthPage ==
    /\ InitApi(ApiServiceMethods) /\ InitTdf /\ InitTa /\ InitChat(<<>>)
    /\ InitDash /\ InitReport /\ InitKb("KnowledgeBase")
    /\ InitCharts(NoFields)
    /\ flags = [c \in Callers |-> FALSE]
    /\ requests = [c \in Callers |-> NotPending]
    /\ envApiUrl = ""
    /\ lastRequest = NoRequest
    /\ \E p \in Paths :
         \/ token = "" /\ InitAuth(p, "", Null)
         \/ token = "jwt" /\ InitAuth(p, "jwt", JsonStringify(Ann))
NextAuth ==
    \/ Login
    \/ Register
    \/ AuthCallSettles
    \/ InitializeAuthSettles
    \/ PageRequestSettles
    \/ Logout
    \/ RedirectLoads
    \/ OpenUrl
    \/ FollowNavigate
    \/ GoTo
SpecAuth == InitAuthPage /\ [][NextAuth]_vars

\* The Chat page over a backend that adds chart fields to its answers, of
\* every shape: the field absent, null, a text or an object.
ChartShapes ==
    {c @@ f :
       c \in Opt("charts", {Null, [text |-> "pie"], [bars |-> <<1, 2>>]}),
       f \in Opt("financial_insights",
                 {Null, [summary |-> "q1"], [charts |-> Null],
                  [charts |-> [text |-> ""]], [charts |-> [text |-> "pie"]],
                  [charts |-> [lines |-> <<3>>]]})}
InitChartChat ==
    /\ InitApi(ApiServiceMethods) /\ InitTdf /\ InitTa /\ InitChat(<<>>)
    /\ InitNet("") /\ InitDash
    /\ InitReport /\ InitKb("KnowledgeBase") /\ InitAuth("/", "", Null)
    /\ \E fields \in ChartShapes : InitCharts(fields)
NextCharts ==
    \/ SetCurrentMessage
    \/ SendMessage
    \/ SendSucceeds
    \/ ConversationsLoaded
SpecCharts == InitChartChat /\ [][NextCharts]_vars

\* The Dashboard over the client as shipped.
NextDashboard ==
    \/ TallyToggle
    \/ DashStatsSettle
    \/ DashTestSettles
    \/ DashMetricsSettle
    \/ DashRemount
SpecDashboard == Init /\ [][NextDashboard]_vars

\* ------------------------------------------------------------ claims ---

\* C1: every accounting read of the API client degrades instead of raising:
\* when its HTTP request fails the promise is fulfilled, with a disconnected
\* status, an empty list or a metrics payload.
C1_ReadsDegrade ==
    apiResult.http \in HttpOutcomes \ {"ok"} =>
      /\ apiResult.settled.kind = "fulfilled"
      /\ LET v == apiResult.settled.value
             m == apiResult.method
         IN  CASE m = "testTallyConnection" -> v.status = "disconnected"
               [] m = "getTallyCompanies" -> v.companies = <<>>
               [] m = "getTallyLedgers" -> v.ledgers = <<>>
               [] m = "getTallyVouchers" -> v.vouchers = <<>>
               [] m = "getTallyStockItems" -> v.stock_items = <<>>
               [] m = "getTallyFinancialMetrics" ->
                    Has(v, "success") /\ Has(v, "data") /\ v.data # Null
C1_Witness ==
    /\ apiResult.method = "getTallyStockItems"
    /\ apiResult.http = "network_error"
    /\ apiResult.settled.kind = "fulfilled"

\* C2: after the connection test has succeeded, a financial-metrics request
\* that fails does not raise and yields data_source = demo in loadTallyData.
C2_DemoWhenUnreachable ==
    (lastLoad.done /\ tallyConnected /\ lastLoad.http # "ok") =>
      dataSource = "demo"

\* C3: the tag recorded with a snapshot is a live value only if the
\* accounting connection was connected when the metrics were fetched, and a
\* snapshot fetched while it was not connected is tagged demo.
LiveValues == {"live", "tally_live"}
C3_Provenance ==
    lastLoad.done =>
      /\ dataSource \in LiveValues => lastLoad.connected
      /\ (financialData # Null /\ ~lastLoad.connected) => dataSource = "demo"
C3_Witness ==
    /\ lastLoad.done /\ tallyConnected /\ ~lastLoad.connected
    /\ financialData # Null /\ dataSource = "demo"

\* C4: a connectToTally that has run to its end while the accounting system
\* is up leaves the page connected.
C4_ConnectReachesConnected ==
    [][(ConnectToTally /\ tallyUp /\ connectsInFlight' = 0) => isConnected']_vars

SettledSends ==
    { sendsInFlight[i] : i \in 1..Len(sendsInFlight) } \
    { sendsInFlight'[i] : i \in 1..Len(sendsInFlight') }

\* C8: after a sendMessage whose request rejects, the user's message of that
\* turn is still in the messages list.
C8_UserMessageKept ==
    [][SendFails =>
         \A s \in SettledSends :
           \E k \in 1..Len(messages') :
             /\ messages'[k].role = "user"
             /\ messages'[k].content = s.userMessage]_vars

\* C9: at most one sendMessage request is in flight at any time.
C9_OneSendInFlight == Len(sendsInFlight) <= 1

\* C10: a sendMessage made with no current conversation posts no
\* conversation_id, and its success makes the returned conversation the
\* current one, titled with the first 50 characters of the message, followed
\* by "..." exactly when the message is longer.
ExpectedTitle(text) ==
    IF Len(text) <= 50 THEN text
    ELSE SubSeq(text, 1, 50) \o <<".", ".", ".">>
C10_LazyConversation ==
    [][SendSucceeds =>
         \A s \in SettledSends :
           s.currentConversation = Null =>
             /\ ~Has(s.request.payload, "conversation_id")
             /\ currentConversation' =
                  [id |-> ChatResponse(s.request).conversation_id,
                   title |-> ExpectedTitle(s.userMessage)]]_vars
C10_Witness ==
    /\ currentConversation # Null
    /\ Len(currentConversation.title) = 53
    /\ \E k \in 1..Len(messages) : messages[k].role = "assistant"

\* C11: the mode is a flag of the request, not of the conversation:
\* loadConversation and startNewConversation leave chatMode as it is, every
\* send posts the chatMode selected when it is made, and so one conversation
\* can receive turns sent in both modes.
C11_ModePerRequest ==
    [][/\ (LoadConversation \/ ConversationLoaded \/ StartNewConversation)
            => chatMode' = chatMode
       /\ SendMessage =>
            sendsInFlight'[Len(sendsInFlight')].request.mode = chatMode]_vars
\* A send in one mode is on its way to a conversation that holds the turn of
\* an earlier send, answered (and still shown) in the other mode.
C11_Witness ==
    \E i \in 1..Len(sendsInFlight), k \in 1..Len(messages),
       j \in 1..Len(srvConversations) :
      LET s == sendsInFlight[i]
          shown == messages[k]
          conv == srvConversations[j]
      IN  /\ Has(s.request.payload, "conversation_id")
          /\ s.request.payload.conversation_id = conv.id
          /\ shown.id.kind = "assistant"
          /\ shown.context_used # (s.request.mode = "rag")
          /\ \E t \in 1..Len(conv.msgs) :
               conv.msgs[t].id = [kind |-> "srv-user", n |-> shown.id.n]

\* C12: every fetch of the API client has a timeout, so a call whose server
\* never responds still completes, and the flag its caller holds (Chat
\* loading, KnowledgeBase isProcessing, TallyAnalytics loadingCompanies,
\* Dashboard loading) is eventually cleared.
C12_FlagEventuallyCleared == \A c \in Callers : flags[c] ~> ~flags[c]

\* C13: for every successful financial-metrics response of the contract
\* shape, the Dashboard's financialMetrics keeps totalRevenue, totalExpenses,
\* netProfit and cashBalance defined, so rendering the cards does not throw.
C13_CardsRenderWithoutFault == ~RenderThrows

\* C14: for every successful financial-metrics response of the contract
\* shape, TallyAnalytics shows the Live Data indicator for data_source = live
\* and the Demo Data indicator for data_source = demo, never the other one.
C14_BadgeMatchesSource ==
    (lastLoad.done /\ lastLoad.http = "ok" /\ ~LoadingScreen) =>
      IF lastLoad.connected
        THEN LiveBadgeShown /\ ~DemoBadgeShown
        ELSE DemoBadgeShown /\ ~LiveBadgeShown

\* C15: every request the API client sends goes to the configured base URL
\* and carries the stored token whenever one is stored; the accounting calls
\* as well as the auth, document and chat calls.
C15_ConfiguredBaseAndToken ==
    [][IssueRequest =>
         /\ lastRequest'.base = ApiBaseUrl
         /\ token # "" => lastRequest'.authorization = token]_vars

\* C16: once loadCompanies has finished and no data load is under way, the
\* analytics page has left its full-page loading screen, whatever the
\* connection test and the company list were; with Tally not connected or
\* no company it shows the 'No Financial Data Available' notice.
C16_LeavesLoadingScreen ==
    (companiesPc = "done" /\ loadsInFlight = <<>>) =>
      /\ ~LoadingScreen
      /\ (~tallyConnected \/ companies = <<>>) => NoDataNoticeShown

\* C17: the pair of a send issued in one conversation is never appended to
\* the list shown for another conversation, loaded or newly started while
\* the send was in flight.
C17_PairStaysInItsConversation ==
    [][SendSucceeds =>
         \A s \in SettledSends :
           ConversationIdOf(currentConversation) #
             ConversationIdOf(s.currentConversation) =>
               \A k \in 1..Len(messages') :
                 messages'[k].id # [kind |-> "user", n |-> s.n]]_vars

\* C18: once all outstanding requests have settled, the ledgers, vouchers
\* and financial data the analytics page holds are those of the selected
\* company.
C18_RecordsOfSelectedCompany ==
    (loadsInFlight = <<>> /\ lastLoad.done /\ selectedCompany # "") =>
      /\ \A k \in 1..Len(ledgers) : ledgers[k].company = selectedCompany
      /\ \A k \in 1..Len(vouchers) : vouchers[k].company = selectedCompany
      /\ financialData # Null => financialData.company = selectedCompany

C20_NoRagWithoutConversations ==
    [][SendMessage =>
         (sendsInFlight'[Len(sendsInFlight')].request.mode = "rag"
            => Len(conversations) > 0)]_vars

FirstPresent(obj, aliases, fallback) ==
    IF \E i \in 1..Len(aliases) : Has(obj, aliases[i])
    THEN obj[aliases[CHOOSE i \in 1..Len(aliases) :
                       /\ Has(obj, aliases[i])
                       /\ \A j \in 1..(i - 1) : ~Has(obj, aliases[j])]]
    ELSE fallback

\* C22: for every ledger or metrics record, the value TallyAnalytics uses
\* for a concept is the value of the first alias, in order, that is present
\* on the record, even when that value is 0 or empty and a later alias is
\* also present.
C22_FirstAliasWins ==
    /\ financialData # Null =>
          /\ revenueExpenseData[1].value =
                FirstPresent(financialData, <<"revenue", "totalRevenue">>, 0)
          /\ revenueExpenseData[2].value =
                FirstPresent(financialData, <<"expenses", "totalExpenses">>, 0)
          /\ revenueExpenseData[3].value =
                FirstPresent(financialData, <<"profit", "netProfit">>, 0)
    /\ \A k \in 1..Len(ledgers) :
          /\ LedgerRow(ledgers[k]).name =
                FirstPresent(ledgers[k], <<"name", "ledger_name">>, "N/A")
          /\ LedgerRow(ledgers[k]).group =
                FirstPresent(ledgers[k], <<"parent", "group">>, "N/A")
          /\ LedgerRow(ledgers[k]).balance =
                FirstPresent(ledgers[k], <<"opening_balance", "balance">>, 0)

\* C23: a submitted file link goes to exactly one ingestion endpoint chosen
\* from the URL alone (drive folder, else drive file, else pdf_url); on
\* success fileUrl is cleared and the list reloaded, on failure fileUrl is
\* kept and the list is not reloaded.
C23_FileLinkDispatch ==
    [][/\ HandleFileUrlSubmit =>
            /\ kbAwait' = Awaiting("file", "ingest")
            /\ kbLastCall'.arg = <<fileUrl>>
            /\ kbLastCall'.path =
                 IF Includes(fileUrl, DriveFolderPart)
                   THEN "/documents/process-google-drive-folder"
                 ELSE IF \/ Includes(fileUrl, DriveFilePart)
                         \/ Includes(fileUrl, DriveUcPart)
                   THEN "/documents/process-google-drive-file"
                 ELSE "/documents/process-pdf-url"
       /\ \A http \in HttpOutcomes :
            (IngestSettlesWith(http) /\ kbAwait.handler = "file") =>
               IF http = "ok"
                 THEN /\ fileUrl' = <<>>
                      /\ kbLoading' /\ kbLastCall' = GetDocumentsCall
                      /\ kbAwait' = Awaiting("file", "reload")
                 ELSE /\ fileUrl' = fileUrl
                      /\ UNCHANGED <<kbLastCall, kbLoading, documents>>
                      /\ kbAwait' = NotAwaiting]_vars
\* A file link has been sent and accepted: fileUrl is cleared and the
\* handler awaits the reload of the list.
C23_Witness ==
    /\ kbAwait = Awaiting("file", "reload")
    /\ fileUrl = <<>>
    /\ kbLastCall = GetDocumentsCall
    /\ kbLoading

\* A link as an input of type url accepts it: a scheme first, and no white
\* space inside.
WellFormedUrl(text) ==
    /\ text # <<>>
    /\ Head(text) = "https://"
    /\ \A i \in 1..Len(text) : text[i] # " "

\* C24: handleFileUrlSubmit and handleWebUrlsSubmit issue no API call and
\* change no state when the URL is blank or malformed.
C24_RejectedBeforeRequest ==
    [][/\ (HandleFileUrlSubmit /\ ~WellFormedUrl(Trim(fileUrl)))
            => UNCHANGED vars
       /\ (HandleWebUrlsSubmit /\
              \A i \in 1..Len(webUrls) : ~WellFormedUrl(Trim(webUrls[i])))
            => UNCHANGED vars]_vars

\* C30: in both upload components webUrls always has between 1 and 5
\* entries, whatever sequence of addWebUrlField, removeWebUrlField,
\* updateWebUrl and handleWebUrlsSubmit has run, and a successful submit
\* resets it to a single empty entry.
C30_WebUrlFields ==
    /\ [](1 <= Len(webUrls) /\ Len(webUrls) <= 5)
    /\ [][(IngestSettlesWith("ok") /\ kbAwait.handler = "web")
            => webUrls' = << <<>> >>]_vars
\* Five fields were filled in and submitted from EnhancedDocumentUpload,
\* and the accepted submit has left a single empty field.
C30_Witness ==
    /\ uploader = "EnhancedDocumentUpload"
    /\ kbLastCall = AxiosPostMultipleSources(<<Page, Page, Page, Page, Page>>)
    /\ webUrls = << <<>> >>
    /\ ~isProcessing

\* C25: in every reachable state of AuthProvider, isAuthenticated is true
\* exactly when user is non-null, and isAuthenticated implies that a token
\* is stored in localStorage.
C25_AuthStateConsistent ==
    /\ isAuthenticated <=> (user # Null)
    /\ isAuthenticated => token # ""

\* C26: a protected page is rendered only when auth loading is false and
\* isAuthenticated is true; when loading is false and the user is
\* unauthenticated every protected path redirects to /login; when
\* authenticated /login and /register redirect to /dashboard; every unknown
\* path redirects to /dashboard.
C26_RouteGuards ==
    /\ \A p \in ProtectedPaths :
          (RouteElement(p) = PageAt(p)) => (~authLoading /\ isAuthenticated)
    /\ (~authLoading /\ ~isAuthenticated) =>
          \A p \in ProtectedPaths : RouteElement(p) = Navigate("/login")
    /\ (~authLoading /\ isAuthenticated) =>
          \A p \in PublicPaths : RouteElement(p) = Navigate("/dashboard")
    /\ \A p \in Paths \ (PublicPaths \cup ProtectedPaths) :
          RouteElement(p) = Navigate("/dashboard")
\* A returning user whose token was validated is shown the chat page.
C26_Witness ==
    /\ Rendered = PageAt("/chat")
    /\ isAuthenticated /\ ~authLoading

\* C27: a 401 response to a request made through the client's axios
\* instance removes token and user from localStorage, redirects to /login
\* and still rejects the call; a response with another error status leaves
\* the stored token and user unchanged.
C27_OnlyUnauthorizedClearsSession ==
    [][\A resp \in AuthFailures :
         (\/ AuthCallSettlesWith(resp)
          \/ InitializeAuthSettlesWith(resp)
          \/ PageRequestSettlesWith(resp)) =>
            IF resp.status = 401
              THEN /\ token' = "" /\ storedUser' = Null /\ redirecting'
                   /\ AuthCallSettlesWith(resp) => authResult'.kind = "rejected"
              ELSE UNCHANGED <<token, storedUser>>]_vars

\* C28: a failed login or register leaves user, isAuthenticated and the
\* stored token and user unchanged, ends with loading = false, and rejects
\* with an Error whose message is the server-supplied detail or else the
\* default text.
C28_FailedLoginChangesNothing ==
    [][\A resp \in AuthFailures :
         AuthCallSettlesWith(resp) =>
           /\ UNCHANGED <<user, isAuthenticated, token, storedUser>>
           /\ authLoading' = FALSE
           /\ authResult'.kind = "rejected"
           /\ authResult'.message =
                IF resp.detail # "" THEN resp.detail
                ELSE IF authAwait = "login" THEN "Login failed"
                ELSE "Registration failed"]_vars
\* A register was turned down with the server's text.
C28_Witness ==
    /\ authResult = [kind |-> "rejected",
                     message |-> "Username already registered"]
    /\ ~authLoading /\ ~isAuthenticated /\ user = Null
    /\ token = "" /\ storedUser = Null

\* C29: the assistant message of a turn has as charts
\* response.financial_insights.charts when that is present, otherwise
\* response.charts when it is an object, otherwise null.
C29_ChartsOfTheResponse ==
    \A k \in 1..Len(messages) :
      messages[k].role = "assistant" =>
        messages[k].charts =
          IF /\ Has(srvCharts, "financial_insights")
             /\ Has(srvCharts.financial_insights, "charts")
             /\ srvCharts.financial_insights.charts
                  \notin {Null, [text |-> ""]}
            THEN srvCharts.financial_insights.charts
          ELSE IF /\ Has(srvCharts, "charts")
                  /\ srvCharts.charts # Null
                  /\ ~Has(srvCharts.charts, "text")
            THEN srvCharts.charts
          ELSE Null
\* An answer carrying both payloads has been shown with the one of
\* financial_insights.
C29_Witness ==
    /\ Has(srvCharts, "charts") /\ srvCharts.charts = [bars |-> <<1, 2>>]
    /\ \E k \in 1..Len(messages) :
         /\ messages[k].role = "assistant"
         /\ messages[k].charts = [lines |-> <<3>>]

====
